---- MODULE Spec2Model ----
(***************************************************************************)
(* Reservation admission control of bohdan462/reservation-app:             *)
(*   - EvaluationService.evaluateReservation (the ordered rule cascade),   *)
(*   - ReservationService (create / update / cancel, by id and by token),  *)
(*   - WaitlistService (createEntry / updateEntry / tryPromoteNext /       *)
(*     expireOldEntries).                                                  *)
(*                                                                         *)
(* Representation.                                                         *)
(*   A calendar date is its day number (day 0 is a Sunday), so the weekday *)
(*   is day % 7 and the UTC-midnight instant of the date is day * 1440.    *)
(*   Instants are minutes.  A wall-clock string "HH:mm" is the sequence    *)
(*   <<HH, mm>> ("HH:mm:ss" is <<HH, mm, ss>>); the JavaScript string      *)
(*   comparison of such zero-padded strings is the lexicographic order of  *)
(*   the sequences, a proper prefix being the smaller.                     *)
(*   A utilization threshold is kept in percent (0.85 is 85).              *)
(***************************************************************************)
EXTENDS Integers, Sequences, FiniteSets, TLC

VARIABLES
    reservations,   \* table Reservation: row i has id i and cancelToken i
    waitlist,       \* table WaitlistEntry: row i has id i, created i-th
    settingsStore,  \* table RestaurantSettings: the set holding the 'default' row, or {}
    now,            \* the server clock, an instant in minutes
    lastOp,         \* the most recent service call and what it returned
    pc,             \* per request in flight: the await it is suspended at
    local,          \* per request in flight: its local variables
    calls           \* the number of service calls counted so far

vars == <<reservations, waitlist, settingsStore, now, lastOp, pc, local, calls>>

(***************************************************************************)
(* Bounds of the model.                                                    *)
(***************************************************************************)
MaxReservations == 3
MaxWaitlist == 2

(***************************************************************************)
(* Strings and calendar helpers.                                           *)
(***************************************************************************)
MinOf(a, b) == IF a <= b THEN a ELSE b

\* JavaScript a < b on "HH:mm[:ss]" strings.
StrLT(a, b) ==
    \/ \E i \in 1..MinOf(Len(a), Len(b)) :
          /\ \A j \in 1..(i - 1) : a[j] = b[j]
          /\ a[i] < b[i]
    \/ /\ Len(a) < Len(b)
       /\ \A j \in 1..Len(a) : a[j] = b[j]

StrLE(a, b) == a = b \/ StrLT(a, b)

\* time.split(':').map(Number), hours * 60 + minutes (seconds are dropped)
TimeInMinutes(time) == time[1] * 60 + time[2]

Abs(x) == IF x < 0 THEN -x ELSE x

\* the server's UTC offset in minutes ("The server runs in UTC")
ServerUtcOffsetMinutes == 0

\* serialize.ts parseDateUTC: the UTC-midnight instant of a calendar date
parseDateUTC(date) == date * 1440

\* new Date(date).getUTCDay()
getUTCDay(instant) == (instant \div 1440) % 7

\* evaluation.service.ts parseLocalDate(date) then setHours(h, m, 0, 0): the
\* instant at which the server's wall clock shows that date and time
LocalDateTime(date, time) ==
    date * 1440 + TimeInMinutes(time) - ServerUtcOffsetMinutes

\* reservation.service.ts combineDateAndTime: new Date(date), then setHours in
\* the server's zone, where date is a UTC-midnight instant
combineDateAndTime(dateInstant, time) ==
    LET localDay == (dateInstant + ServerUtcOffsetMinutes) \div 1440
    IN  localDay * 1440 + TimeInMinutes(time) - ServerUtcOffsetMinutes

(***************************************************************************)
(* Rows.                                                                   *)
(***************************************************************************)
NoSettings == {}     \* table RestaurantSettings without the 'default' row
None == <<>>         \* a NULL column; Some(x) is a value
Some(x) == <<x>>
NoOp == [op |-> "none"]
Null == "null"
NullTime == <<>>   \* a missing "HH:mm" string

RECURSIVE SumPartySize(_)
\* reservations.reduce((total, res) => total + res.partySize, 0)
SumPartySize(rows) ==
    IF rows = <<>> THEN 0
    ELSE Head(rows).partySize + SumPartySize(Tail(rows))

(***************************************************************************)
(* RestaurantSettings (settings.service.ts, migration.sql).                *)
(***************************************************************************)
Weekdays == 0..6

\* createDefaultSettings: 17:00-22:00, Friday and Saturday until 23:00
DefaultOperatingHours ==
    { [dayOfWeek |-> d, isClosed |-> FALSE, openTime |-> <<17, 0>>,
       closeTime |-> IF d \in {5, 6} THEN <<23, 0>> ELSE <<22, 0>>]
      : d \in Weekdays }

\* the column defaults of table RestaurantSettings
DefaultSettings ==
    [ diningRoomSeats            |-> 50,
      barSeats                   |-> 12,
      outdoorSeats               |-> 20,
      maxReservationsPerSlot     |-> 8,
      turnoverMinutes            |-> 90,
      autoAcceptMaxPartySize     |-> 6,
      requireDepositMinPartySize |-> 8,
      maxDaysInAdvance           |-> 60,
      minHoursInAdvance          |-> 2,
      autoWaitlistThreshold      |-> 95,
      autoPendingThreshold       |-> 85,
      largePartyNeedsApproval    |-> TRUE,
      largePartyMinSize          |-> 10,
      allowSameDayBooking        |-> TRUE,
      operatingHours             |-> DefaultOperatingHours,
      specialDates               |-> {} ]

\* SettingsService.getSettings: the stored row, created with the defaults
\* when there is none.  The pair is <<settings returned, row stored after>>.
getSettings(store) ==
    IF store = NoSettings THEN <<DefaultSettings, {DefaultSettings}>>
    ELSE <<CHOOSE row \in store : TRUE, store>>

(***************************************************************************)
(* EvaluationService (evaluation.service.ts).                              *)
(***************************************************************************)
\* isTimeInRange
isTimeInRange(time, openTime, closeTime) ==
    StrLE(openTime, time) /\ StrLE(time, closeTime)

\* checkOperatingHours consulting the weekday first: a closed or missing
\* weekday entry closes the day before any special date is looked at
checkOperatingHours_WeekdayFirst(date, time, settings) ==
    LET specials == {sd \in settings.specialDates : sd.date = date}
        dayOfWeek == getUTCDay(parseDateUTC(date))
        hours == {h \in settings.operatingHours : h.dayOfWeek = dayOfWeek}
    IN  IF hours = {} THEN FALSE
        ELSE LET h == CHOOSE x \in hours : TRUE
                 regular == isTimeInRange(time, h.openTime, h.closeTime)
             IN  IF h.isClosed THEN FALSE
                 ELSE IF specials # {}
                 THEN LET sd == CHOOSE x \in specials : TRUE
                      IN  IF sd.isClosed THEN FALSE
                          ELSE IF sd.customOpenTime # NullTime
                                  /\ sd.customCloseTime # NullTime
                               THEN isTimeInRange(time, sd.customOpenTime,
                                                  sd.customCloseTime)
                               ELSE regular
                 ELSE regular

\* checkOperatingHours
checkOperatingHours(date, time, settings) ==
    LET specials == {sd \in settings.specialDates : sd.date = date}
        dayOfWeek == getUTCDay(parseDateUTC(date))
        hours == {h \in settings.operatingHours : h.dayOfWeek = dayOfWeek}
        regular ==
            IF hours = {} THEN FALSE
            ELSE LET h == CHOOSE x \in hours : TRUE
                 IN  IF h.isClosed THEN FALSE
                     ELSE isTimeInRange(time, h.openTime, h.closeTime)
    IN  IF specials # {}
        THEN LET sd == CHOOSE x \in specials : TRUE
             IN  IF sd.isClosed THEN FALSE
                 ELSE IF sd.customOpenTime # NullTime /\ sd.customCloseTime # NullTime
                      THEN isTimeInRange(time, sd.customOpenTime, sd.customCloseTime)
                      ELSE regular
        ELSE regular

\* calculateHoursInAdvance measured to the end of the requested day instead of
\* the requested time
calculateMinutesInAdvance_EndOfDay(date, time, clock) ==
    LocalDateTime(date, <<24, 0>>) - clock

\* calculateHoursInAdvance, kept in minutes: hoursInAdvance = minutes / 60
calculateMinutesInAdvance(date, time, clock) ==
    LocalDateTime(date, time) - clock

\* the total capacity taken to be the dining room alone
TotalCapacity_DiningOnly(settings) == settings.diningRoomSeats

TotalCapacity(settings) ==
    settings.diningRoomSeats + settings.barSeats + settings.outdoorSeats

\* calculateCapacity counting only the Confirmed rows at the requested time
calculateCapacity_ExactTime(rows, date, time, settings) ==
    LET InWindow(r) ==
            /\ r.date = parseDateUTC(date) \div 1440
            /\ r.status = "CONFIRMED"
            /\ r.time = time
        relevant == SelectSeq(rows, InWindow)
    IN  [ reservationCount |-> Len(relevant),
          totalGuests      |-> SumPartySize(relevant),
          totalCapacity    |-> TotalCapacity(settings) ]

\* calculateCapacity leaving out the rows exactly turnoverMinutes away
calculateCapacity_StrictWindow(rows, date, time, settings) ==
    LET InWindow(r) ==
            /\ r.date = parseDateUTC(date) \div 1440
            /\ r.status = "CONFIRMED"
            /\ Abs(TimeInMinutes(time) - TimeInMinutes(r.time))
                   < settings.turnoverMinutes
        relevant == SelectSeq(rows, InWindow)
    IN  [ reservationCount |-> Len(relevant),
          totalGuests      |-> SumPartySize(relevant),
          totalCapacity    |-> TotalCapacity(settings) ]

\* calculateCapacity: the Confirmed rows of the date within the turnover window
calculateCapacity(rows, date, time, settings) ==
    LET InWindow(r) ==
            /\ r.date = parseDateUTC(date) \div 1440
            /\ r.status = "CONFIRMED"
            /\ Abs(TimeInMinutes(time) - TimeInMinutes(r.time))
                   <= settings.turnoverMinutes
        relevant == SelectSeq(rows, InWindow)
    IN  [ reservationCount |-> Len(relevant),
          totalGuests      |-> SumPartySize(relevant),
          totalCapacity    |-> TotalCapacity(settings) ]

\* capacity.utilization >= threshold, where utilization is the IEEE quotient
\* totalGuests / totalCapacity: x / 0 is Infinity for x > 0, and 0 / 0 is NaN,
\* which compares false with everything
UtilizationAtLeast(capacity, thresholdPercent) ==
    IF capacity.totalCapacity = 0
    THEN capacity.totalGuests > 0
    ELSE capacity.totalGuests * 100 >= thresholdPercent * capacity.totalCapacity

EvalResult(decision, reason, capacity, minutesInAdvance, isOpen) ==
    [ decision |-> decision,
      reason   |-> reason,
      metadata |-> [ reservationsInSlot     |-> capacity.reservationCount,
                     totalGuests            |-> capacity.totalGuests,
                     minutesInAdvance       |-> minutesInAdvance,
                     isWithinOperatingHours |-> isOpen ] ]

NoCapacity == [reservationCount |-> 0, totalGuests |-> 0, totalCapacity |-> 0]

\* evaluateReservation with the party-size rules moved ahead of the
\* advance-notice and same-day rules
evaluateReservation_SizeFirst(request, settings, rows, clock) ==
    LET date == request.date
        time == request.time
        partySize == request.partySize
        mins == calculateMinutesInAdvance(date, time, clock)
        isOpen == checkOperatingHours(date, time, settings)
        capacity == calculateCapacity(rows, date, time, settings)
    IN  IF ~isOpen
        THEN EvalResult("REJECT", "Outside operating hours", NoCapacity, mins, FALSE)
        ELSE IF settings.largePartyNeedsApproval
                /\ partySize >= settings.largePartyMinSize
        THEN EvalResult("PENDING", "requires manager approval", capacity, mins, TRUE)
        ELSE IF partySize >= settings.requireDepositMinPartySize
        THEN EvalResult("PENDING", "requires deposit confirmation", capacity, mins, TRUE)
        ELSE IF partySize > settings.autoAcceptMaxPartySize
        THEN EvalResult("PENDING", "exceeds auto-accept limit", capacity, mins, TRUE)
        ELSE IF mins < settings.minHoursInAdvance * 60
        THEN EvalResult("REJECT", "Must book in advance", NoCapacity, mins, TRUE)
        ELSE IF mins > settings.maxDaysInAdvance * 24 * 60
        THEN EvalResult("REJECT", "Cannot book that far ahead", NoCapacity, mins, TRUE)
        ELSE IF mins < 24 * 60 /\ ~settings.allowSameDayBooking
        THEN EvalResult("REJECT", "Same-day booking not allowed", NoCapacity, mins, TRUE)
        ELSE IF capacity.reservationCount >= settings.maxReservationsPerSlot
        THEN EvalResult("WAITLIST", "Time slot is full", capacity, mins, TRUE)
        ELSE IF UtilizationAtLeast(capacity, settings.autoWaitlistThreshold)
        THEN EvalResult("WAITLIST", "adding to waitlist", capacity, mins, TRUE)
        ELSE IF UtilizationAtLeast(capacity, settings.autoPendingThreshold)
        THEN EvalResult("PENDING", "requires review", capacity, mins, TRUE)
        ELSE IF capacity.totalGuests + partySize > TotalCapacity(settings)
        THEN EvalResult("WAITLIST", "Would exceed capacity", capacity, mins, TRUE)
        ELSE EvalResult("AUTO_CONFIRM", "All requirements met", capacity, mins, TRUE)

\* evaluateReservation with the deposit rule tried before the large-party rule
evaluateReservation_DepositFirst(request, settings, rows, clock) ==
    LET date == request.date
        time == request.time
        partySize == request.partySize
        mins == calculateMinutesInAdvance(date, time, clock)
        isOpen == checkOperatingHours(date, time, settings)
        capacity == calculateCapacity(rows, date, time, settings)
    IN  IF ~isOpen
        THEN EvalResult("REJECT", "Outside operating hours", NoCapacity, mins, FALSE)
        ELSE IF mins < settings.minHoursInAdvance * 60
        THEN EvalResult("REJECT", "Must book in advance", NoCapacity, mins, TRUE)
        ELSE IF mins > settings.maxDaysInAdvance * 24 * 60
        THEN EvalResult("REJECT", "Cannot book that far ahead", NoCapacity, mins, TRUE)
        ELSE IF mins < 24 * 60 /\ ~settings.allowSameDayBooking
        THEN EvalResult("REJECT", "Same-day booking not allowed", NoCapacity, mins, TRUE)
        ELSE IF partySize >= settings.requireDepositMinPartySize
        THEN EvalResult("PENDING", "requires deposit confirmation", capacity, mins, TRUE)
        ELSE IF settings.largePartyNeedsApproval
                /\ partySize >= settings.largePartyMinSize
        THEN EvalResult("PENDING", "requires manager approval", capacity, mins, TRUE)
        ELSE IF partySize > settings.autoAcceptMaxPartySize
        THEN EvalResult("PENDING", "exceeds auto-accept limit", capacity, mins, TRUE)
        ELSE IF capacity.reservationCount >= settings.maxReservationsPerSlot
        THEN EvalResult("WAITLIST", "Time slot is full", capacity, mins, TRUE)
        ELSE IF UtilizationAtLeast(capacity, settings.autoWaitlistThreshold)
        THEN EvalResult("WAITLIST", "adding to waitlist", capacity, mins, TRUE)
        ELSE IF UtilizationAtLeast(capacity, settings.autoPendingThreshold)
        THEN EvalResult("PENDING", "requires review", capacity, mins, TRUE)
        ELSE IF capacity.totalGuests + partySize > TotalCapacity(settings)
        THEN EvalResult("WAITLIST", "Would exceed capacity", capacity, mins, TRUE)
        ELSE EvalResult("AUTO_CONFIRM", "All requirements met", capacity, mins, TRUE)

\* evaluateReservation with the two thresholds applied to the utilization the
\* slot would have with the new party added
evaluateReservation_Prospective(request, settings, rows, clock) ==
    LET date == request.date
        time == request.time
        partySize == request.partySize
        mins == calculateMinutesInAdvance(date, time, clock)
        isOpen == checkOperatingHours(date, time, settings)
        capacity == calculateCapacity(rows, date, time, settings)
        after == [capacity EXCEPT !.totalGuests = @ + partySize]
    IN  IF ~isOpen
        THEN EvalResult("REJECT", "Outside operating hours", NoCapacity, mins, FALSE)
        ELSE IF mins < settings.minHoursInAdvance * 60
        THEN EvalResult("REJECT", "Must book in advance", NoCapacity, mins, TRUE)
        ELSE IF mins > settings.maxDaysInAdvance * 24 * 60
        THEN EvalResult("REJECT", "Cannot book that far ahead", NoCapacity, mins, TRUE)
        ELSE IF mins < 24 * 60 /\ ~settings.allowSameDayBooking
        THEN EvalResult("REJECT", "Same-day booking not allowed", NoCapacity, mins, TRUE)
        ELSE IF settings.largePartyNeedsApproval
                /\ partySize >= settings.largePartyMinSize
        THEN EvalResult("PENDING", "requires manager approval", capacity, mins, TRUE)
        ELSE IF partySize >= settings.requireDepositMinPartySize
        THEN EvalResult("PENDING", "requires deposit confirmation", capacity, mins, TRUE)
        ELSE IF partySize > settings.autoAcceptMaxPartySize
        THEN EvalResult("PENDING", "exceeds auto-accept limit", capacity, mins, TRUE)
        ELSE IF capacity.reservationCount >= settings.maxReservationsPerSlot
        THEN EvalResult("WAITLIST", "Time slot is full", capacity, mins, TRUE)
        ELSE IF UtilizationAtLeast(after, settings.autoWaitlistThreshold)
        THEN EvalResult("WAITLIST", "adding to waitlist", capacity, mins, TRUE)
        ELSE IF UtilizationAtLeast(after, settings.autoPendingThreshold)
        THEN EvalResult("PENDING", "requires review", capacity, mins, TRUE)
        ELSE IF capacity.totalGuests + partySize > TotalCapacity(settings)
        THEN EvalResult("WAITLIST", "Would exceed capacity", capacity, mins, TRUE)
        ELSE EvalResult("AUTO_CONFIRM", "All requirements met", capacity, mins, TRUE)

\* evaluateReservation, given the settings getSettings returned
evaluateReservation(request, settings, rows, clock) ==
    LET date == request.date
        time == request.time
        partySize == request.partySize
        mins == calculateMinutesInAdvance(date, time, clock)
        isOpen == checkOperatingHours(date, time, settings)
        capacity == calculateCapacity(rows, date, time, settings)
    IN  IF ~isOpen
        THEN EvalResult("REJECT", "Outside operating hours", NoCapacity, mins, FALSE)
        ELSE IF mins < settings.minHoursInAdvance * 60
        THEN EvalResult("REJECT", "Must book in advance", NoCapacity, mins, TRUE)
        ELSE IF mins > settings.maxDaysInAdvance * 24 * 60
        THEN EvalResult("REJECT", "Cannot book that far ahead", NoCapacity, mins, TRUE)
        ELSE IF mins < 24 * 60 /\ ~settings.allowSameDayBooking
        THEN EvalResult("REJECT", "Same-day booking not allowed", NoCapacity, mins, TRUE)
        ELSE IF settings.largePartyNeedsApproval
                /\ partySize >= settings.largePartyMinSize
        THEN EvalResult("PENDING", "requires manager approval", capacity, mins, TRUE)
        ELSE IF partySize >= settings.requireDepositMinPartySize
        THEN EvalResult("PENDING", "requires deposit confirmation", capacity, mins, TRUE)
        ELSE IF partySize > settings.autoAcceptMaxPartySize
        THEN EvalResult("PENDING", "exceeds auto-accept limit", capacity, mins, TRUE)
        ELSE IF capacity.reservationCount >= settings.maxReservationsPerSlot
        THEN EvalResult("WAITLIST", "Time slot is full", capacity, mins, TRUE)
        ELSE IF UtilizationAtLeast(capacity, settings.autoWaitlistThreshold)
        THEN EvalResult("WAITLIST", "adding to waitlist", capacity, mins, TRUE)
        ELSE IF UtilizationAtLeast(capacity, settings.autoPendingThreshold)
        THEN EvalResult("PENDING", "requires review", capacity, mins, TRUE)
        ELSE IF capacity.totalGuests + partySize > TotalCapacity(settings)
        THEN EvalResult("WAITLIST", "Would exceed capacity", capacity, mins, TRUE)
        ELSE EvalResult("AUTO_CONFIRM", "All requirements met", capacity, mins, TRUE)

(***************************************************************************)
(* The evaluation endpoint on its own: POST /api/capacity/evaluate against *)
(* a stored settings row and a snapshot of the reservation table.          *)
(***************************************************************************)
Monday == 8          \* the first requested date (day 0 is a Sunday, so a Monday)
EvalDates == {Monday, Monday + 1, Monday + 70}
EvalTimes == {<<16, 0>>, <<19, 0>>, <<19, 30>>, <<22, 0>>}
EvalPartySizes == {2, 5, 7, 8, 10}
EvalInstants == {Monday * 1440 + 10 * 60, (Monday + 1) * 1440 + 18 * 60}

EvalRequests ==
    [date : EvalDates, time : EvalTimes, partySize : EvalPartySizes]

Row(guestName, date, time, partySize, status, source, notes) ==
    [ guestName |-> guestName, date |-> date, time |-> time,
      partySize |-> partySize, status |-> status, source |-> source,
      notes |-> notes ]

\* a small restaurant, as PUT /api/settings can store it
SmallSettings ==
    { [DefaultSettings EXCEPT
          !.diningRoomSeats = 6, !.barSeats = 2, !.outdoorSeats = 2,
          !.maxReservationsPerSlot = m,
          !.turnoverMinutes = 60,
          !.allowSameDayBooking = sameDay,
          !.largePartyNeedsApproval = large,
          !.operatingHours = hours,
          !.specialDates = special]
      : m \in {1, 8}, sameDay \in BOOLEAN, large \in BOOLEAN,
        hours \in { DefaultOperatingHours,
                    {h \in DefaultOperatingHours : h.dayOfWeek # 1}
                      \cup {[dayOfWeek |-> 1, isClosed |-> TRUE,
                              openTime |-> <<17, 0>>, closeTime |-> <<22, 0>>]},
                    {h \in DefaultOperatingHours : h.dayOfWeek # 1} },
        special \in { {},
                      {[date |-> Monday + 1, isClosed |-> TRUE,
                        customOpenTime |-> NullTime, customCloseTime |-> NullTime]},
                      {[date |-> Monday, isClosed |-> FALSE,
                        customOpenTime |-> <<15, 0>>, customCloseTime |-> <<19, 0>>]} } }

\* the default settings with the dining room enlarged to a total of 100 seats
LargeRoomSettings == [DefaultSettings EXCEPT !.diningRoomSeats = 68]

EvalSettings == SmallSettings \cup {LargeRoomSettings}

EvalSnapshots ==
    { <<>>,
      <<Row("g1", Monday + 1, <<19, 0>>, 4, "CONFIRMED", "WEB", Null)>>,
      <<Row("g1", Monday + 1, <<19, 0>>, 9, "CONFIRMED", "WEB", Null)>>,
      <<Row("g1", Monday + 1, <<19, 0>>, 9, "CONFIRMED", "WEB", Null),
        Row("g2", Monday + 1, <<19, 30>>, 1, "CONFIRMED", "WEB", Null)>>,
      <<Row("g1", Monday + 1, <<19, 0>>, 9, "PENDING", "WEB", Null),
        Row("g2", Monday + 1, <<22, 0>>, 7, "CONFIRMED", "WEB", Null)>>,
      [i \in 1..5 |-> Row("g1", Monday + 1, <<19, 0>>, 18, "CONFIRMED", "WEB", Null)],
      <<Row("g1", Monday + 1, <<19, 0>>, 3, "PENDING", "WEB", Null),
        Row("g2", Monday + 1, <<19, 0>>, 3, "CANCELLED", "WEB", Null),
        Row("g3", Monday + 1, <<19, 0>>, 3, "SEATED", "WEB", Null),
        Row("g4", Monday + 1, <<19, 0>>, 3, "NO_SHOW", "WEB", Null),
        Row("g5", Monday + 1, <<20, 30>>, 3, "CONFIRMED", "WEB", Null),
        Row("g6", Monday, <<19, 0>>, 2, "CONFIRMED", "WEB", Null)>> }

InitEval ==
    /\ reservations \in EvalSnapshots
    /\ waitlist = <<>>
    /\ settingsStore \in {{row} : row \in EvalSettings} \cup {NoSettings}
    /\ now \in EvalInstants
    /\ lastOp = NoOp
    /\ pc = <<>>
    /\ local = <<>>
    /\ calls = 0

\* CapacityController.evaluate -> EvaluationService.evaluateReservation
Evaluate(request) ==
    LET got == getSettings(settingsStore)
    IN  /\ settingsStore' = got[2]
        /\ lastOp' = [ op |-> "evaluateReservation",
                       request |-> request,
                       settings |-> got[1],
                       result |-> evaluateReservation(request, got[1],
                                                      reservations, now) ]
        /\ UNCHANGED <<reservations, waitlist, now, pc, local>>

NextEval == \E request \in EvalRequests : Evaluate(request) /\ UNCHANGED calls

SpecEval == InitEval /\ [][NextEval]_vars

(***************************************************************************)
(* C1.  The cascade as an ordered list of rules, each with its condition   *)
(* taken on its own, its decision and its reason.                          *)
(***************************************************************************)
CascadeRules(request, settings, rows, clock) ==
    LET mins == calculateMinutesInAdvance(request.date, request.time, clock)
        capacity == calculateCapacity(rows, request.date, request.time, settings)
        size == request.partySize
    IN  << \* (1) operating hours
           [holds |-> ~checkOperatingHours(request.date, request.time, settings),
            decision |-> "REJECT", reason |-> "Outside operating hours"],
           \* (2) advance-notice window: min hours, then max days
           [holds |-> mins < settings.minHoursInAdvance * 60,
            decision |-> "REJECT", reason |-> "Must book in advance"],
           [holds |-> mins > settings.maxDaysInAdvance * 24 * 60,
            decision |-> "REJECT", reason |-> "Cannot book that far ahead"],
           \* (3) same-day policy
           [holds |-> mins < 24 * 60 /\ ~settings.allowSameDayBooking,
            decision |-> "REJECT", reason |-> "Same-day booking not allowed"],
           \* (4) manual-review party-size rules
           [holds |-> settings.largePartyNeedsApproval
                        /\ size >= settings.largePartyMinSize,
            decision |-> "PENDING", reason |-> "requires manager approval"],
           [holds |-> size >= settings.requireDepositMinPartySize,
            decision |-> "PENDING", reason |-> "requires deposit confirmation"],
           [holds |-> size > settings.autoAcceptMaxPartySize,
            decision |-> "PENDING", reason |-> "exceeds auto-accept limit"],
           \* (5) capacity checks
           [holds |-> capacity.reservationCount >= settings.maxReservationsPerSlot,
            decision |-> "WAITLIST", reason |-> "Time slot is full"],
           [holds |-> UtilizationAtLeast(capacity, settings.autoWaitlistThreshold),
            decision |-> "WAITLIST", reason |-> "adding to waitlist"],
           [holds |-> UtilizationAtLeast(capacity, settings.autoPendingThreshold),
            decision |-> "PENDING", reason |-> "requires review"],
           [holds |-> capacity.totalGuests + size > TotalCapacity(settings),
            decision |-> "WAITLIST", reason |-> "Would exceed capacity"],
           \* (6) otherwise
           [holds |-> TRUE,
            decision |-> "AUTO_CONFIRM", reason |-> "All requirements met"] >>

FirstMatching(rules) ==
    CHOOSE i \in 1..Len(rules) :
        rules[i].holds /\ \A j \in 1..(i - 1) : ~rules[j].holds

\* the cascade rules of the evaluation recorded in lastOp, judged on the state
\* the call read (the reservation table and the clock do not change under
\* SpecEval)
LastCascade ==
    CascadeRules(lastOp.request, lastOp.settings, reservations, now)

\* C1: the decision (and reason) evaluateReservation returns is that of the
\* earliest rule of the cascade, in the order operating hours, advance
\* notice (min hours, max days), same-day, party size, capacity, auto-confirm,
\* whose condition holds, whatever the later rules would have said.
C1_FirstMatchingRuleWins ==
    lastOp.op = "evaluateReservation" =>
        LET rules == LastCascade
            first == FirstMatching(rules)
        IN  /\ lastOp.result.decision = rules[first].decision
            /\ lastOp.result.reason = rules[first].reason

\* C1 witness: a request rejected for too little notice although the large
\* party rule (Pending) and the slot limit (Waitlist) hold as well.
C1_Witness ==
    /\ lastOp.op = "evaluateReservation"
    /\ LET rules == LastCascade
       IN  /\ FirstMatching(rules) = 2
           /\ rules[5].holds
           /\ rules[8].holds
    /\ lastOp.result.decision = "REJECT"

(***************************************************************************)
(* config.businessRules (config/index.ts).  Each value is read from the    *)
(* environment; the deployment modelled sets MAX_COVERS_PER_TIME_SLOT=11   *)
(* and leaves the other variables at their defaults.                       *)
(***************************************************************************)
maxAutoConfirmPartySize == 8
maxCoversPerTimeSlot == 11
minNoticeMinutes == 60
openingTime == <<11, 0>>
closingTime == <<22, 0>>

(***************************************************************************)
(* ReservationService.shouldAutoConfirm and its helpers.                   *)
(***************************************************************************)
\* isWithinOpeningHours with the restaurant taken to be always open
isWithinOpeningHours_Always(time) == TRUE

\* isWithinOpeningHours
isWithinOpeningHours(time) ==
    StrLE(openingTime, time) /\ StrLE(time, closingTime)

\* the where-clause {date, time, status: CONFIRMED} of getCoversForTimeSlot
ConfirmedInSlot(rows, date, time) ==
    LET Test(r) == r.date = date /\ r.time = time /\ r.status = "CONFIRMED"
    IN  SelectSeq(rows, Test)

\* getCoversForTimeSlot adding up the rows of the slot whatever their status
getCoversForTimeSlot_AnyStatus(rows, date, time) ==
    LET Test(r) == r.date = date /\ r.time = time
    IN  SumPartySize(SelectSeq(rows, Test))

\* getCoversForTimeSlot (the same in both services)
getCoversForTimeSlot(rows, date, time) ==
    SumPartySize(ConfirmedInSlot(rows, date, time))

Decision(shouldConfirm, shouldWaitlist, reason) ==
    [shouldConfirm |-> shouldConfirm, shouldWaitlist |-> shouldWaitlist,
     reason |-> reason]

\* Rules 1-3 of shouldAutoConfirm, which read no table: the decision they
\* return, or None when the capacity rule is reached
EarlyDecision(date, time, partySize, clock) ==
    IF partySize > maxAutoConfirmPartySize
    THEN Some(Decision(FALSE, FALSE, "Party size too large for auto-confirm"))
    ELSE IF ~isWithinOpeningHours(time)
    THEN Some(Decision(FALSE, FALSE, "Requested time outside opening hours"))
    ELSE IF combineDateAndTime(date * 1440, time) - clock < minNoticeMinutes
    THEN Some(Decision(FALSE, FALSE, "Insufficient advance notice"))
    ELSE None

\* Rule 4 with currentCovers overlooked
CapacityDecision_NoCovers(currentCovers, partySize) ==
    IF partySize > maxCoversPerTimeSlot
    THEN Decision(FALSE, TRUE, "Capacity exceeded")
    ELSE Decision(TRUE, FALSE, "none")

\* Rule 4 of shouldAutoConfirm, on the covers the query returned
CapacityDecision(currentCovers, partySize) ==
    IF currentCovers + partySize > maxCoversPerTimeSlot
    THEN Decision(FALSE, TRUE, "Capacity exceeded")
    ELSE Decision(TRUE, FALSE, "none")

\* shouldAutoConfirm run without interruption
shouldAutoConfirm(rows, date, time, partySize, clock) ==
    LET early == EarlyDecision(date, time, partySize, clock)
    IN  IF early # None THEN early[1]
        ELSE CapacityDecision(getCoversForTimeSlot(rows, date, time), partySize)

(***************************************************************************)
(* WaitlistService.                                                        *)
(***************************************************************************)
\* a waitlist entry created already Expired
Entry_Expired(guestName, date, time, partySize) ==
    [ guestName |-> guestName, date |-> date, time |-> time,
      partySize |-> partySize, status |-> "EXPIRED",
      linkedReservationId |-> None, promotedAt |-> None ]

\* a row of table WaitlistEntry as createEntry writes it
Entry(guestName, date, time, partySize) ==
    [ guestName |-> guestName, date |-> date, time |-> time,
      partySize |-> partySize, status |-> "WAITING",
      linkedReservationId |-> None, promotedAt |-> None ]

\* findMany {date, time, status: WAITING} orderBy createdAt asc: the ids
WaitingIds(wl, date, time) ==
    LET Test(i) == /\ wl[i].date = date
                   /\ wl[i].time = time
                   /\ wl[i].status = "WAITING"
        ids == [i \in 1..Len(wl) |-> i]
    IN  SelectSeq(ids, Test)

\* the loop taking the head of the scan whatever the covers
FirstFit_NoCovers(wl, ids, currentCovers) ==
    IF ids = <<>> THEN None ELSE Some(Head(ids))

\* the loop taking the smallest party that fits
FirstFit_SmallestFirst(wl, ids, currentCovers) ==
    LET fitting == { i \in 1..Len(wl) :
                       /\ \E k \in 1..Len(ids) : ids[k] = i
                       /\ currentCovers + wl[i].partySize <= maxCoversPerTimeSlot }
    IN  IF fitting = {} THEN None
        ELSE Some(CHOOSE i \in fitting :
                    \A j \in fitting :
                        \/ wl[i].partySize < wl[j].partySize
                        \/ wl[i].partySize = wl[j].partySize /\ i <= j)

\* the loop scanning newest first
FirstFit_NewestFirst(wl, ids, currentCovers) ==
    LET fitting == { i \in 1..Len(wl) :
                       /\ \E k \in 1..Len(ids) : ids[k] = i
                       /\ currentCovers + wl[i].partySize <= maxCoversPerTimeSlot }
    IN  IF fitting = {} THEN None
        ELSE Some(CHOOSE i \in fitting : \A j \in fitting : j <= i)

RECURSIVE FirstFit(_, _, _)
\* the for-loop of tryPromoteNext: the first entry of the scan that fits, as
\* Some(id), or None
FirstFit(wl, ids, currentCovers) ==
    IF ids = <<>> THEN None
    ELSE IF currentCovers + wl[Head(ids)].partySize <= maxCoversPerTimeSlot
         THEN Some(Head(ids))
         ELSE FirstFit(wl, Tail(ids), currentCovers)

\* the promoted reservation left for review
PromotedRow_Pending(entry) ==
    Row(entry.guestName, entry.date, entry.time, entry.partySize,
        "PENDING", "WEB", Null)

\* the reservation tryPromoteNext creates from an entry
PromotedRow(entry) ==
    Row(entry.guestName, entry.date, entry.time, entry.partySize,
        "CONFIRMED", "IN_HOUSE", "Promoted from waitlist")

RECURSIVE PromoteAll(_, _, _, _, _)
\* the for-loop without its return: every entry of the scan that fits the
\* covers read before the loop is promoted
PromoteAll(rows, wl, ids, currentCovers, clock) ==
    IF ids = <<>> THEN [reservations |-> rows, waitlist |-> wl]
    ELSE IF currentCovers + wl[Head(ids)].partySize <= maxCoversPerTimeSlot
         THEN PromoteAll(Append(rows, PromotedRow(wl[Head(ids)])),
                         [wl EXCEPT ![Head(ids)] =
                             [@ EXCEPT !.status = "PROMOTED",
                                       !.linkedReservationId = Some(Len(rows) + 1),
                                       !.promotedAt = Some(clock)]],
                         Tail(ids), currentCovers, clock)
         ELSE PromoteAll(rows, wl, Tail(ids), currentCovers, clock)

\* tryPromoteNext going on through the scan after a promotion
tryPromoteNext_NoReturn(rows, wl, date, time, clock) ==
    LET ids == WaitingIds(wl, date, time)
        currentCovers == getCoversForTimeSlot(rows, date, time)
        hit == IF ids = <<>> THEN None ELSE FirstFit(wl, ids, currentCovers)
        all == PromoteAll(rows, wl, ids, currentCovers, clock)
    IN  IF hit = None
        THEN [ reservations |-> rows, waitlist |-> wl, promoted |-> FALSE,
               scanned |-> ids, covers |-> currentCovers,
               entryId |-> None, reservationId |-> None ]
        ELSE [ reservations |-> all.reservations,
               waitlist |-> all.waitlist,
               promoted |-> TRUE,
               scanned |-> ids, covers |-> currentCovers,
               entryId |-> hit, reservationId |-> Some(Len(rows) + 1) ]

\* tryPromoteNext marking the scanned entries Expired when none of them fits
tryPromoteNext_ExpiresUnfit(rows, wl, date, time, clock) ==
    LET ids == WaitingIds(wl, date, time)
        currentCovers == getCoversForTimeSlot(rows, date, time)
        hit == IF ids = <<>> THEN None ELSE FirstFit(wl, ids, currentCovers)
    IN  IF hit = None
        THEN [ reservations |-> rows,
               waitlist |-> [ i \in 1..Len(wl) |->
                                IF \E k \in 1..Len(ids) : ids[k] = i
                                THEN [wl[i] EXCEPT !.status = "EXPIRED"]
                                ELSE wl[i] ],
               promoted |-> FALSE,
               scanned |-> ids, covers |-> currentCovers,
               entryId |-> None, reservationId |-> None ]
        ELSE [ reservations |-> Append(rows, PromotedRow(wl[hit[1]])),
               waitlist |-> [wl EXCEPT ![hit[1]] =
                               [@ EXCEPT !.status = "PROMOTED",
                                         !.linkedReservationId = Some(Len(rows) + 1),
                                         !.promotedAt = Some(clock)]],
               promoted |-> TRUE,
               scanned |-> ids, covers |-> currentCovers,
               entryId |-> hit, reservationId |-> Some(Len(rows) + 1) ]

\* tryPromoteNext run without interruption: the tables after it and what it
\* returned
tryPromoteNext(rows, wl, date, time, clock) ==
    LET ids == WaitingIds(wl, date, time)
        currentCovers == getCoversForTimeSlot(rows, date, time)
        hit == IF ids = <<>> THEN None ELSE FirstFit(wl, ids, currentCovers)
    IN  IF hit = None
        THEN [ reservations |-> rows, waitlist |-> wl, promoted |-> FALSE,
               scanned |-> ids, covers |-> currentCovers,
               entryId |-> None, reservationId |-> None ]
        ELSE [ reservations |-> Append(rows, PromotedRow(wl[hit[1]])),
               waitlist |-> [wl EXCEPT ![hit[1]] =
                               [@ EXCEPT !.status = "PROMOTED",
                                         !.linkedReservationId = Some(Len(rows) + 1),
                                         !.promotedAt = Some(clock)]],
               promoted |-> TRUE,
               scanned |-> ids, covers |-> currentCovers,
               entryId |-> hit, reservationId |-> Some(Len(rows) + 1) ]

\* expireOldEntries comparing the UTC midnight of the entry's date with the
\* instant of the call
expireOldEntries_Instant(wl, clock) ==
    [ i \in 1..Len(wl) |->
        IF wl[i].status = "WAITING" /\ parseDateUTC(wl[i].date) < clock
        THEN [wl[i] EXCEPT !.status = "EXPIRED"]
        ELSE wl[i] ]

\* expireOldEntries: updateMany {status: WAITING, date < now}.  Column date
\* of WaitlistEntry is a DATE, so now is bound as a date, the UTC calendar
\* date of the instant, and the comparison is one of calendar dates
expireOldEntries(wl, clock) ==
    [ i \in 1..Len(wl) |->
        IF wl[i].status = "WAITING" /\ wl[i].date < clock \div 1440
        THEN [wl[i] EXCEPT !.status = "EXPIRED"]
        ELSE wl[i] ]

\* prisma update: the columns named in data replace the row's
ApplyUpdates(row, data) ==
    [ f \in DOMAIN row |-> IF f \in DOMAIN data THEN data[f] ELSE row[f] ]

(***************************************************************************)
(* The service calls, each run from start to end without interleaving.     *)
(***************************************************************************)
Statuses == {"PENDING", "CONFIRMED", "CANCELLED", "SEATED", "NO_SHOW"}
WaitlistStatuses == {"WAITING", "PROMOTED", "EXPIRED"}

\* the requested (date, time) pairs: an evening of the first day, a morning
\* (before opening) and an evening of the next
Slots == { <<Monday, <<19, 0>>>>, <<Monday + 1, <<9, 0>>>>, <<Monday + 1, <<19, 0>>>> }
\* the guests who ask for a table, each with their party
Guests == { [guestName |-> "ann", partySize |-> 8],
            [guestName |-> "bob", partySize |-> 2],
            [guestName |-> "cyd", partySize |-> 9] }
\* the clock readings: Monday 10:00 and Monday 18:30
Instants == {Monday * 1440 + 10 * 60, Monday * 1440 + 18 * 60 + 30}

Ids == 1..MaxReservations
EntryIds == 1..MaxWaitlist

\* what updateReservationSchema lets staff send (PATCH /api/reservations/:id)
StaffUpdates ==
    {[status |-> st] : st \in Statuses}

\* what guestUpdateSchema lets a guest send (PATCH /api/public/reservations/:token)
GuestUpdates ==
    {<<>>, [partySize |-> 2], [notes |-> "edited"]}

\* what updateWaitlistSchema lets staff send (PATCH /api/waitlist/:id)
EntryUpdates ==
    {[status |-> st] : st \in WaitlistStatuses}
        \cup {[linkedReservationId |-> Some(1)]}

Init ==
    /\ reservations = <<>>
    /\ waitlist = <<>>
    /\ settingsStore = NoSettings
    /\ now \in Instants
    /\ lastOp = NoOp
    /\ pc = <<>>
    /\ local = <<>>
    /\ calls = 0

\* what the mail server does with a message: it is delivered, or sendMail
\* rejects or runs into the 30 second timeout
Smtp == {"delivered", "failed"}

\* sendEmail letting the failure through to its caller
sendEmail_Throws(smtp) == IF smtp = "failed" THEN "rejected" ELSE "resolved"

\* lib/email.ts sendEmail: a failure is caught and logged, the promise
\* resolves either way
sendEmail(smtp) == "resolved"

\* ReservationService.createReservation: the row is written, then the email
\* is awaited (a rejected await leaves the call with an error, the row
\* written)
CreateReservation(guestName, date, time, partySize, smtp) ==
    LET decision == shouldAutoConfirm(reservations, date, time, partySize, now)
        status == IF decision.shouldConfirm THEN "CONFIRMED" ELSE "PENDING"
        mail == sendEmail(smtp)
    IN  IF decision.shouldWaitlist
        THEN /\ Len(waitlist) < MaxWaitlist
             /\ waitlist' = Append(waitlist, Entry(guestName, date, time, partySize))
             /\ lastOp' = [ op |-> "createReservation",
                            status |-> IF mail = "rejected" THEN "error"
                                       ELSE "waitlisted",
                            smtp |-> smtp,
                            id |-> Len(waitlist) + 1,
                            request |-> [ date |-> date, time |-> time,
                                          partySize |-> partySize ] ]
             /\ UNCHANGED <<reservations, settingsStore, now, pc, local>>
        ELSE /\ Len(reservations) < MaxReservations
             /\ reservations' = Append(reservations,
                    Row(guestName, date, time, partySize, status, "WEB", Null))
             /\ lastOp' = [ op |-> "createReservation",
                            status |-> IF mail = "rejected" THEN "error"
                                       ELSE IF status = "CONFIRMED" THEN "confirmed"
                                       ELSE "pending",
                            smtp |-> smtp,
                            id |-> Len(reservations) + 1,
                            request |-> [ date |-> date, time |-> time,
                                          partySize |-> partySize ] ]
             /\ UNCHANGED <<waitlist, settingsStore, now, pc, local>>

\* ReservationService.cancelReservation on the tables given: the update, then
\* tryPromoteNext for the row's date and time
cancelReservation(rows, wl, id, clock) ==
    LET cancelled == [rows EXCEPT ![id].status = "CANCELLED"]
    IN  tryPromoteNext(cancelled, wl, rows[id].date, rows[id].time, clock)

\* what a cancellation leaves in lastOp; the promotion email is awaited
\* after the promotion is written
CancelRecord(op, id, promo, smtp) ==
    [ op |-> op, id |-> id,
      error |-> IF promo.promoted /\ sendEmail(smtp) = "rejected"
                THEN Some("email") ELSE None,
      smtp |-> IF promo.promoted THEN smtp ELSE "none",
      priorStatus |-> reservations[id].status,
      date |-> reservations[id].date, time |-> reservations[id].time,
      promoteCalled |-> TRUE, promoted |-> promo.promoted,
      entryId |-> promo.entryId ]

Failure(op, id, message) == [op |-> op, id |-> id, error |-> Some(message)]

\* POST /api/reservations/:id/cancel -> ReservationService.cancelReservation
CancelReservation(id, smtp) ==
    IF id \notin 1..Len(reservations)
    THEN /\ lastOp' = Failure("cancelReservation", id, "P2025")
         /\ UNCHANGED <<reservations, waitlist, settingsStore, now, pc, local>>
    ELSE LET promo == cancelReservation(reservations, waitlist, id, now)
         IN  /\ Len(promo.reservations) <= MaxReservations
             /\ reservations' = promo.reservations
             /\ waitlist' = promo.waitlist
             /\ lastOp' = CancelRecord("cancelReservation", id, promo, smtp)
             /\ UNCHANGED <<settingsStore, now, pc, local>>

\* cancelByToken without its test of the current status
CancelByToken_NoStatusTest(cancelToken, smtp) ==
    IF cancelToken \notin 1..Len(reservations)
    THEN /\ lastOp' = Failure("cancelByToken", cancelToken, "Reservation not found")
         /\ UNCHANGED <<reservations, waitlist, settingsStore, now, pc, local>>
    ELSE LET promo == cancelReservation(reservations, waitlist, cancelToken, now)
         IN  /\ Len(promo.reservations) <= MaxReservations
             /\ reservations' = promo.reservations
             /\ waitlist' = promo.waitlist
             /\ lastOp' = CancelRecord("cancelByToken", cancelToken, promo, smtp)
             /\ UNCHANGED <<settingsStore, now, pc, local>>

\* ReservationService.cancelByToken
CancelByToken(cancelToken, smtp) ==
    IF cancelToken \notin 1..Len(reservations)
    THEN /\ lastOp' = Failure("cancelByToken", cancelToken, "Reservation not found")
         /\ UNCHANGED <<reservations, waitlist, settingsStore, now, pc, local>>
    ELSE IF reservations[cancelToken].status = "CANCELLED"
    THEN /\ lastOp' = Failure("cancelByToken", cancelToken,
                               "Reservation already cancelled")
         /\ UNCHANGED <<reservations, waitlist, settingsStore, now, pc, local>>
    ELSE LET promo == cancelReservation(reservations, waitlist, cancelToken, now)
         IN  /\ Len(promo.reservations) <= MaxReservations
             /\ reservations' = promo.reservations
             /\ waitlist' = promo.waitlist
             /\ lastOp' = CancelRecord("cancelByToken", cancelToken, promo, smtp)
             /\ UNCHANGED <<settingsStore, now, pc, local>>

\* ReservationService.updateReservation (the phone and date conversions touch
\* columns and formats the model does not keep)
UpdateReservation(id, data) ==
    IF id \notin 1..Len(reservations)
    THEN /\ lastOp' = Failure("updateReservation", id, "P2025")
         /\ UNCHANGED <<reservations, waitlist, settingsStore, now, pc, local>>
    ELSE /\ reservations' = [reservations EXCEPT ![id] = ApplyUpdates(@, data)]
         /\ lastOp' = [ op |-> "updateReservation", id |-> id, error |-> None,
                        priorStatus |-> reservations[id].status,
                        promoteCalled |-> FALSE ]
         /\ UNCHANGED <<waitlist, settingsStore, now, pc, local>>

\* the guest's fields written as they came, the status left alone
updateByTokenData_StatusKept(updates, setToPending) == updates

\* the data ReservationService.updateByToken writes
updateByTokenData(updates, setToPending) ==
    IF setToPending /\ Cardinality(DOMAIN updates) > 0
    THEN [ f \in DOMAIN updates \cup {"status"} |->
             IF f = "status" THEN "PENDING" ELSE updates[f] ]
    ELSE updates

\* PublicController.updateByToken -> ReservationService.updateByToken(token,
\* updates, true)
UpdateByToken(cancelToken, updates) ==
    IF cancelToken \notin 1..Len(reservations)
    THEN /\ lastOp' = Failure("updateByToken", cancelToken, "Reservation not found")
         /\ UNCHANGED <<reservations, waitlist, settingsStore, now, pc, local>>
    ELSE /\ reservations' = [reservations EXCEPT ![cancelToken] =
                                ApplyUpdates(@, updateByTokenData(updates, TRUE))]
         /\ lastOp' = [ op |-> "updateByToken", id |-> cancelToken,
                        error |-> None, fields |-> DOMAIN updates,
                        priorStatus |-> reservations[cancelToken].status ]
         /\ UNCHANGED <<waitlist, settingsStore, now, pc, local>>

\* POST /api/waitlist -> WaitlistService.createEntry
CreateEntry(guestName, date, time, partySize) ==
    /\ Len(waitlist) < MaxWaitlist
    /\ waitlist' = Append(waitlist, Entry(guestName, date, time, partySize))
    /\ lastOp' = [op |-> "createEntry", id |-> Len(waitlist) + 1]
    /\ UNCHANGED <<reservations, settingsStore, now, pc, local>>

\* PATCH /api/waitlist/:id -> WaitlistService.updateEntry
UpdateEntry(id, data) ==
    IF id \notin 1..Len(waitlist)
    THEN /\ lastOp' = Failure("updateEntry", id, "P2025")
         /\ UNCHANGED <<reservations, waitlist, settingsStore, now, pc, local>>
    ELSE /\ waitlist' = [waitlist EXCEPT ![id] = ApplyUpdates(@, data)]
         /\ lastOp' = [ op |-> "updateEntry", id |-> id, error |-> None,
                        priorStatus |-> waitlist[id].status ]
         /\ UNCHANGED <<reservations, settingsStore, now, pc, local>>

\* WaitlistService.tryPromoteNext called on its own
TryPromoteNext(date, time, smtp) ==
    LET promo == tryPromoteNext(reservations, waitlist, date, time, now)
    IN  /\ Len(promo.reservations) <= MaxReservations
        /\ reservations' = promo.reservations
        /\ waitlist' = promo.waitlist
        /\ lastOp' = [ op |-> "tryPromoteNext", date |-> date, time |-> time,
                       promoted |-> promo.promoted, entryId |-> promo.entryId,
                       error |-> IF promo.promoted /\ sendEmail(smtp) = "rejected"
                                 THEN Some("email") ELSE None,
                       smtp |-> IF promo.promoted THEN smtp ELSE "none" ]
        /\ UNCHANGED <<settingsStore, now, pc, local>>

\* WaitlistService.expireOldEntries
ExpireOldEntries ==
    /\ waitlist' = expireOldEntries(waitlist, now)
    /\ lastOp' = [ op |-> "expireOldEntries",
                   count |-> Cardinality({i \in 1..Len(waitlist) :
                                            waitlist'[i] # waitlist[i]}) ]
    /\ UNCHANGED <<reservations, settingsStore, now, pc, local>>

\* time passes
Tick ==
    /\ \E t \in Instants : t > now /\ now' = t
    /\ lastOp' = [op |-> "tick"]
    /\ UNCHANGED <<reservations, waitlist, settingsStore, pc, local>>

\* the calls with the mail server answering
DoCreateReservation ==
    \E slot \in Slots, g \in Guests :
        CreateReservation(g.guestName, slot[1], slot[2], g.partySize, "delivered")
DoCancelReservation == \E id \in Ids : CancelReservation(id, "delivered")
DoCancelByToken == \E id \in Ids : CancelByToken(id, "delivered")
DoTryPromoteNext ==
    \E slot \in Slots : TryPromoteNext(slot[1], slot[2], "delivered")
DoUpdateReservation == \E id \in Ids, data \in StaffUpdates : UpdateReservation(id, data)
DoUpdateByToken == \E id \in Ids, data \in GuestUpdates : UpdateByToken(id, data)
DoCreateEntry ==
    \E slot \in Slots, g \in Guests :
        CreateEntry(g.guestName, slot[1], slot[2], g.partySize)
DoUpdateEntry == \E id \in EntryIds, data \in EntryUpdates : UpdateEntry(id, data)

\* createReservation, cancelReservation, cancelByToken and tryPromoteNext only
NextCore ==
    \/ DoCreateReservation /\ UNCHANGED calls
    \/ DoCancelReservation /\ UNCHANGED calls
    \/ DoCancelByToken /\ UNCHANGED calls
    \/ DoTryPromoteNext /\ UNCHANGED calls
    \/ Tick /\ UNCHANGED calls

SpecCore == Init /\ [][NextCore]_vars

(***************************************************************************)
(* C3.  With the calls run one at a time, the confirmed covers of every    *)
(* exact (date, time) never exceed maxCoversPerTimeSlot.                   *)
(***************************************************************************)
C3_CoversWithinLimit ==
    \A slot \in Slots :
        getCoversForTimeSlot(reservations, slot[1], slot[2]) <= maxCoversPerTimeSlot

\* a slot one more party of two would overfill, holding a promoted
\* reservation, with a party still waiting for it
C3_Witness ==
    \E slot \in Slots :
        /\ getCoversForTimeSlot(reservations, slot[1], slot[2]) + 2
               > maxCoversPerTimeSlot
        /\ \E i \in 1..Len(reservations) :
               /\ reservations[i].date = slot[1] /\ reservations[i].time = slot[2]
               /\ reservations[i].status = "CONFIRMED"
               /\ reservations[i].source = "IN_HOUSE"
        /\ \E i \in 1..Len(waitlist) :
               /\ waitlist[i].date = slot[1] /\ waitlist[i].time = slot[2]
               /\ waitlist[i].status = "WAITING"

(***************************************************************************)
(* What a promotion scan had before it: the step's call in lastOp', the    *)
(* tables of the state it started from.                                    *)
(***************************************************************************)
\* the step is a completed promotion scan (on its own or inside a cancel)
IsScan(op) ==
    /\ op.op \in {"tryPromoteNext", "cancelReservation", "cancelByToken"}
    /\ (op.op # "tryPromoteNext" => op.error = None)

\* the reservation table the scan read: the cancelled row already Cancelled
RowsScanned(op) ==
    IF op.op = "tryPromoteNext" THEN reservations
    ELSE [reservations EXCEPT ![op.id].status = "CANCELLED"]

\* seats free in the scan's slot
SeatsFree(op) ==
    maxCoversPerTimeSlot - getCoversForTimeSlot(RowsScanned(op), op.date, op.time)

\* the Waiting entries of the scan's slot, and those of them that fit
WaitingFor(op) ==
    { i \in 1..Len(waitlist) :
        /\ waitlist[i].date = op.date /\ waitlist[i].time = op.time
        /\ waitlist[i].status = "WAITING" }

FittingFor(op) == { i \in WaitingFor(op) : waitlist[i].partySize <= SeatsFree(op) }

(***************************************************************************)
(* C4.  tryPromoteNext is first-fit in creation order: when some Waiting   *)
(* entry of the slot fits in the free seats, the earliest-created fitting   *)
(* entry is the one promoted and every other entry is left as it was (the   *)
(* ones skipped stay Waiting); when none fits, no table changes beyond the  *)
(* cancellation itself.                                                     *)
(***************************************************************************)
C4_FirstFitInCreationOrder ==
    [][ IsScan(lastOp') =>
          LET op == lastOp'
              fitting == FittingFor(op)
          IN  IF fitting = {}
              THEN /\ ~op.promoted
                   /\ waitlist' = waitlist
                   /\ reservations' = RowsScanned(op)
              ELSE LET first == CHOOSE i \in fitting : \A j \in fitting : i <= j
                   IN  /\ op.promoted
                       /\ op.entryId = Some(first)
                       /\ waitlist'[first].status = "PROMOTED"
                       /\ \A i \in 1..Len(waitlist) :
                              i # first => waitlist'[i] = waitlist[i]
                       /\ Len(reservations') = Len(reservations) + 1 ]_vars

\* the example: A (8) then B (2) waiting, 3 seats free: B promoted, A waiting
C4_Witness ==
    /\ IsScan(lastOp)
    /\ lastOp.promoted
    /\ Len(waitlist) = 2
    /\ waitlist[1].partySize = 8 /\ waitlist[1].status = "WAITING"
    /\ waitlist[2].partySize = 2 /\ waitlist[2].status = "PROMOTED"
    /\ waitlist[1].date = waitlist[2].date /\ waitlist[1].time = waitlist[2].time
    /\ maxCoversPerTimeSlot
         - getCoversForTimeSlot(reservations, waitlist[1].date, waitlist[1].time)
         = 3 - 2

(***************************************************************************)
(* C5, as stated: a later-created smaller waiting party that fits is never  *)
(* promoted ahead of an earlier-created larger waiting party of the slot    *)
(* that does not fit.                                                       *)
(***************************************************************************)
C5_NeverAheadOfEarlierLarger ==
    [][ (IsScan(lastOp') /\ lastOp'.promoted) =>
          LET op == lastOp'
              j == op.entryId[1]
          IN  ~ \E i \in WaitingFor(op) :
                    /\ i < j
                    /\ waitlist[i].partySize > waitlist[j].partySize
                    /\ waitlist[i].partySize > SeatsFree(op) ]_vars

(***************************************************************************)
(* C5, amended.  A waiting party is never promoted ahead of an earlier-     *)
(* created waiting party of the slot that fits: every Waiting entry created *)
(* before the promoted one does not fit in the free seats, and is skipped   *)
(* and left Waiting, whatever its size.                                     *)
(***************************************************************************)
C5_NeverAheadOfEarlierFitting ==
    [][ (IsScan(lastOp') /\ lastOp'.promoted) =>
          LET op == lastOp'
              j == op.entryId[1]
          IN  /\ j \in WaitingFor(op)
              /\ waitlist[j].partySize <= SeatsFree(op)
              /\ \A i \in WaitingFor(op) :
                    i < j => /\ waitlist[i].partySize > SeatsFree(op)
                             /\ waitlist'[i].status = "WAITING" ]_vars

\* a promotion that passed over an earlier, larger party of the slot
C5_Witness ==
    /\ IsScan(lastOp)
    /\ lastOp.promoted
    /\ \E i \in 1..Len(waitlist) :
          /\ i < lastOp.entryId[1]
          /\ waitlist[i].status = "WAITING"
          /\ waitlist[i].date = lastOp.date /\ waitlist[i].time = lastOp.time
          /\ waitlist[i].partySize > waitlist[lastOp.entryId[1]].partySize

(***************************************************************************)
(* C6.  A cancel of a Confirmed reservation, when exactly one Waiting entry *)
(* of its (date, time) fits the seats free after it, leaves the reservation *)
(* Cancelled, a new Confirmed reservation with the entry's guest, date,     *)
(* time and party size, source IN_HOUSE and the note 'Promoted from         *)
(* waitlist', and the entry Promoted, linked to the new reservation's id    *)
(* and stamped with the time of the promotion.                              *)
(***************************************************************************)
C6_CancelPromotesTheFittingEntry ==
    [][ ( /\ lastOp'.op \in {"cancelReservation", "cancelByToken"}
          /\ lastOp'.error = None
          /\ lastOp'.priorStatus = "CONFIRMED"
          /\ Cardinality(FittingFor(lastOp')) = 1 ) =>
          LET op == lastOp'
              e == CHOOSE i \in FittingFor(op) : TRUE
              new == Len(reservations) + 1
          IN  /\ reservations'[op.id].status = "CANCELLED"
              /\ Len(reservations') = new
              /\ reservations'[new] =
                     [ guestName |-> waitlist[e].guestName,
                       date |-> waitlist[e].date, time |-> waitlist[e].time,
                       partySize |-> waitlist[e].partySize,
                       status |-> "CONFIRMED", source |-> "IN_HOUSE",
                       notes |-> "Promoted from waitlist" ]
              /\ waitlist'[e].status = "PROMOTED"
              /\ waitlist'[e].linkedReservationId = Some(new)
              /\ waitlist'[e].promotedAt = Some(now) ]_vars

\* after such a cancel: the guest of the new reservation is the entry's, not
\* the guest who cancelled
C6_Witness ==
    /\ lastOp.op = "cancelReservation"
    /\ lastOp.error = None
    /\ lastOp.priorStatus = "CONFIRMED"
    /\ lastOp.promoted
    /\ reservations[lastOp.id].status = "CANCELLED"
    /\ reservations[Len(reservations)].guestName # reservations[lastOp.id].guestName
    /\ reservations[Len(reservations)].guestName
           = waitlist[lastOp.entryId[1]].guestName
    /\ waitlist[lastOp.entryId[1]].linkedReservationId = Some(Len(reservations))
    /\ Cardinality({ i \in 1..Len(waitlist) :
                       waitlist[i].date = lastOp.date /\ waitlist[i].time = lastOp.time })
           = 1

(***************************************************************************)
(* Requests in flight.  Node runs a handler up to its next await, so each  *)
(* database call is one step and other requests' steps may fall between    *)
(* two awaits of one handler.  pc[p] is the await request p is suspended   *)
(* at, local[p] its local variables.                                       *)
(***************************************************************************)
MaxRequests == 2
Requests == 1..MaxRequests

Idle == [op |-> "none"]

\* tables the sequential calls can leave behind, the requests start from one
R8 == Row("ann", Monday + 1, <<19, 0>>, 8, "CONFIRMED", "WEB", Null)
R2 == Row("bob", Monday + 1, <<19, 0>>, 2, "CONFIRMED", "WEB", Null)
StartTables ==
    { <<(<<>>), (<<>>)>>,
      <<(<<R8>>), (<<>>)>>,
      <<(<<R8, R2>>), (<<Entry("ann", Monday + 1, <<19, 0>>, 8)>>)>>,
      <<(<<R8, R2>>), (<<Entry("ann", Monday + 1, <<19, 0>>, 8),
                         Entry("bob", Monday + 1, <<19, 0>>, 2)>>)>> }

InitConc ==
    /\ \E t \in StartTables : reservations = t[1] /\ waitlist = t[2]
    /\ settingsStore = NoSettings
    /\ now \in Instants
    /\ lastOp = NoOp
    /\ pc = [p \in Requests |-> "idle"]
    /\ local = [p \in Requests |-> Idle]
    /\ calls = 0

\* createReservation up to its first await: rules 1-3 of shouldAutoConfirm
\* return at once, otherwise the covers query is sent
StartCreate(p, guestName, date, time, partySize) ==
    LET early == EarlyDecision(date, time, partySize, now)
    IN  /\ pc[p] = "idle"
        /\ pc' = [pc EXCEPT ![p] = IF early = None THEN "getCovers" ELSE "persist"]
        /\ local' = [local EXCEPT ![p] =
                        [ op |-> "createReservation", guestName |-> guestName,
                          date |-> date, time |-> time, partySize |-> partySize,
                          decision |-> early, coversRead |-> None,
                          coversAtWrite |-> None, result |-> "none" ]]
        /\ UNCHANGED <<reservations, waitlist, settingsStore, now, lastOp>>

\* await this.getCoversForTimeSlot(date, time) answers; rule 4 decides on it
CreateGetCovers(p) ==
    LET l == local[p]
        covers == getCoversForTimeSlot(reservations, l.date, l.time)
    IN  /\ pc[p] = "getCovers"
        /\ local[p].op = "createReservation"
        /\ pc' = [pc EXCEPT ![p] = "persist"]
        /\ local' = [local EXCEPT ![p] =
                        [l EXCEPT !.decision = Some(CapacityDecision(covers, l.partySize)),
                                  !.coversRead = Some(covers)]]
        /\ UNCHANGED <<reservations, waitlist, settingsStore, now, lastOp>>

\* waitlistService.createEntry or prisma.reservation.create, as decided
CreatePersist(p) ==
    LET l == local[p]
        decision == l.decision[1]
        status == IF decision.shouldConfirm THEN "CONFIRMED" ELSE "PENDING"
        covers == getCoversForTimeSlot(reservations, l.date, l.time)
    IN  /\ pc[p] = "persist"
        /\ pc' = [pc EXCEPT ![p] = "done"]
        /\ IF decision.shouldWaitlist
           THEN /\ waitlist' = Append(waitlist,
                        Entry(l.guestName, l.date, l.time, l.partySize))
                /\ local' = [local EXCEPT ![p] =
                                [l EXCEPT !.result = "waitlisted",
                                          !.coversAtWrite = Some(covers)]]
                /\ UNCHANGED reservations
           ELSE /\ reservations' = Append(reservations,
                        Row(l.guestName, l.date, l.time, l.partySize, status,
                            "WEB", Null))
                /\ local' = [local EXCEPT ![p] =
                                [l EXCEPT !.result = IF status = "CONFIRMED"
                                                     THEN "confirmed" ELSE "pending",
                                          !.coversAtWrite = Some(covers)]]
                /\ UNCHANGED waitlist
        /\ UNCHANGED <<settingsStore, now, lastOp>>

\* cancelReservation with its update answered but the scan not started
StartCancel_NoScan(p, id) ==
    /\ pc[p] = "idle"
    /\ IF id \notin 1..Len(reservations)
       THEN /\ pc' = [pc EXCEPT ![p] = "done"]
            /\ local' = [local EXCEPT ![p] =
                            [op |-> "cancelReservation", id |-> id, result |-> "P2025"]]
            /\ UNCHANGED reservations
       ELSE /\ reservations' = [reservations EXCEPT ![id].status = "CANCELLED"]
            /\ pc' = [pc EXCEPT ![p] = "done"]
            /\ local' = [local EXCEPT ![p] =
                            [ op |-> "cancelReservation", id |-> id,
                              priorStatus |-> reservations[id].status,
                              date |-> reservations[id].date,
                              time |-> reservations[id].time,
                              entries |-> <<>>, ids |-> <<>>,
                              coversRead |-> None, hit |-> None,
                              reservationId |-> None, coversAtWrite |-> None,
                              result |-> "none" ]]
    /\ UNCHANGED <<waitlist, settingsStore, now, lastOp>>

\* cancelReservation up to the call of tryPromoteNext: prisma.reservation.update
\* {status: CANCELLED} answers (or rejects for an unknown id), then
\* tryPromoteNext(reservation.date, reservation.time) sends its findMany
StartCancel(p, id) ==
    /\ pc[p] = "idle"
    /\ IF id \notin 1..Len(reservations)
       THEN /\ pc' = [pc EXCEPT ![p] = "done"]
            /\ local' = [local EXCEPT ![p] =
                            [op |-> "cancelReservation", id |-> id, result |-> "P2025"]]
            /\ UNCHANGED reservations
       ELSE /\ reservations' = [reservations EXCEPT ![id].status = "CANCELLED"]
            /\ pc' = [pc EXCEPT ![p] = "findWaiting"]
            /\ local' = [local EXCEPT ![p] =
                            [ op |-> "cancelReservation", id |-> id,
                              priorStatus |-> reservations[id].status,
                              date |-> reservations[id].date,
                              time |-> reservations[id].time,
                              entries |-> <<>>, ids |-> <<>>,
                              coversRead |-> None, hit |-> None,
                              reservationId |-> None, coversAtWrite |-> None,
                              result |-> "none" ]]
    /\ UNCHANGED <<waitlist, settingsStore, now, lastOp>>

\* tryPromoteNext: prisma.waitlistEntry.findMany answers
PromoteFindWaiting(p) ==
    LET l == local[p]
        ids == WaitingIds(waitlist, l.date, l.time)
    IN  /\ pc[p] = "findWaiting"
        /\ pc' = [pc EXCEPT ![p] = IF ids = <<>> THEN "done" ELSE "getCovers"]
        /\ local' = [local EXCEPT ![p] =
                        [l EXCEPT !.entries = waitlist, !.ids = ids,
                                  !.result = IF ids = <<>> THEN "not promoted"
                                             ELSE "none"]]
        /\ UNCHANGED <<reservations, waitlist, settingsStore, now, lastOp>>

\* tryPromoteNext: getCoversForTimeSlot answers and the loop picks its entry
PromoteGetCovers(p) ==
    LET l == local[p]
        covers == getCoversForTimeSlot(reservations, l.date, l.time)
        hit == FirstFit(l.entries, l.ids, covers)
    IN  /\ pc[p] = "getCovers"
        /\ local[p].op = "cancelReservation"
        /\ pc' = [pc EXCEPT ![p] = IF hit = None THEN "done" ELSE "createPromoted"]
        /\ local' = [local EXCEPT ![p] =
                        [l EXCEPT !.coversRead = Some(covers), !.hit = hit,
                                  !.result = IF hit = None THEN "not promoted"
                                             ELSE "none"]]
        /\ UNCHANGED <<reservations, waitlist, settingsStore, now, lastOp>>

\* tryPromoteNext: prisma.reservation.create for the entry picked
PromoteCreate(p) ==
    LET l == local[p]
    IN  /\ pc[p] = "createPromoted"
        /\ reservations' = Append(reservations, PromotedRow(l.entries[l.hit[1]]))
        /\ pc' = [pc EXCEPT ![p] = "updateEntry"]
        /\ local' = [local EXCEPT ![p] =
                        [l EXCEPT !.reservationId = Some(Len(reservations) + 1),
                                  !.coversAtWrite =
                                      Some(getCoversForTimeSlot(reservations,
                                                                l.date, l.time))]]
        /\ UNCHANGED <<waitlist, settingsStore, now, lastOp>>

\* tryPromoteNext: prisma.waitlistEntry.update for the entry picked
PromoteUpdateEntry(p) ==
    LET l == local[p]
    IN  /\ pc[p] = "updateEntry"
        /\ waitlist' = [waitlist EXCEPT ![l.hit[1]] =
                           [@ EXCEPT !.status = "PROMOTED",
                                     !.linkedReservationId = l.reservationId,
                                     !.promotedAt = Some(now)]]
        /\ pc' = [pc EXCEPT ![p] = "done"]
        /\ local' = [local EXCEPT ![p] = [l EXCEPT !.result = "promoted"]]
        /\ UNCHANGED <<reservations, settingsStore, now, lastOp>>

NextConc ==
    \E p \in Requests :
        \/ \E slot \in Slots, g \in Guests :
               /\ StartCreate(p, g.guestName, slot[1], slot[2], g.partySize)
               /\ UNCHANGED calls
        \/ CreateGetCovers(p) /\ UNCHANGED calls
        \/ CreatePersist(p) /\ UNCHANGED calls
        \/ \E id \in Ids : StartCancel(p, id) /\ UNCHANGED calls
        \/ PromoteFindWaiting(p) /\ UNCHANGED calls
        \/ PromoteGetCovers(p) /\ UNCHANGED calls
        \/ PromoteCreate(p) /\ UNCHANGED calls
        \/ PromoteUpdateEntry(p) /\ UNCHANGED calls

SpecConc == InitConc /\ [][NextConc]_vars

\* request p has written a Confirmed row (by createReservation or by the
\* promotion of its cancelReservation)
WroteConfirmed(p) ==
    \/ /\ local[p].op = "createReservation"
       /\ pc[p] = "done"
       /\ local[p].result = "confirmed"
    \/ /\ local[p].op = "cancelReservation"
       /\ pc[p] \in {"updateEntry", "done"}
       /\ local[p].result # "P2025"
       /\ local[p].reservationId # None

\* the covers request p decided on were no longer the slot's covers when it wrote
StaleRead(p) ==
    /\ local[p].coversRead # None
    /\ local[p].coversAtWrite # None
    /\ local[p].coversRead # local[p].coversAtWrite

(***************************************************************************)
(* C2.  A creation decides on the covers it read at its own query and       *)
(* writes in a later step, with nothing held in between: a finished          *)
(* creation that reached the capacity rule is confirmed exactly when the     *)
(* covers it read plus its party size are within maxCoversPerTimeSlot, and   *)
(* the confirmed covers of a slot exceed maxCoversPerTimeSlot only when some *)
(* request wrote a Confirmed row on covers that had changed since it read    *)
(* them.  The interleaving in which two creations for one slot both read     *)
(* before either writes, are both confirmed and leave the slot above the     *)
(* limit is reachable (C2_Witness).                                          *)
(***************************************************************************)
C2_ConfirmedOnOwnRead ==
    /\ \A p \in Requests :
          ( /\ local[p].op = "createReservation"
            /\ pc[p] = "done"
            /\ local[p].coversRead # None )
          => ( local[p].result = "confirmed"
               <=> local[p].coversRead[1] + local[p].partySize
                       <= maxCoversPerTimeSlot )
    /\ \A slot \in Slots :
          getCoversForTimeSlot(reservations, slot[1], slot[2]) > maxCoversPerTimeSlot
          => \E p \in Requests : WroteConfirmed(p) /\ StaleRead(p)

C2_Witness ==
    \E p, q \in Requests :
        /\ p # q
        /\ local[p].op = "createReservation" /\ local[q].op = "createReservation"
        /\ pc[p] = "done" /\ pc[q] = "done"
        /\ local[p].date = local[q].date /\ local[p].time = local[q].time
        /\ local[p].result = "confirmed" /\ local[q].result = "confirmed"
        \* each read the covers as they were before the other wrote
        /\ local[p].coversRead = Some(0) /\ local[q].coversRead = Some(0)
        /\ getCoversForTimeSlot(reservations, local[p].date, local[p].time)
               = local[p].partySize + local[q].partySize
        /\ getCoversForTimeSlot(reservations, local[p].date, local[p].time)
               > maxCoversPerTimeSlot

(***************************************************************************)
(* C7.  cancelReservation(id) sets the row Cancelled in its first step and  *)
(* from there always goes on to tryPromoteNext for the row's own (date,     *)
(* time), whatever the status was and whatever is waiting; the scan's query *)
(* is sent only with the row already Cancelled.  Only an unknown id ends    *)
(* the call without a scan, and then nothing was cancelled.                 *)
(***************************************************************************)
C7_CancelThenAlwaysScan ==
    [][ \A p \in Requests :
          /\ ( /\ pc[p] = "idle"
               /\ pc'[p] # "idle"
               /\ local'[p].op = "cancelReservation" ) =>
                 LET id == local'[p].id
                 IN  IF id \in 1..Len(reservations)
                     THEN /\ reservations'[id].status = "CANCELLED"
                          /\ pc'[p] = "findWaiting"
                          /\ local'[p].date = reservations[id].date
                          /\ local'[p].time = reservations[id].time
                     ELSE /\ pc'[p] = "done"
                          /\ reservations' = reservations
          /\ ( pc[p] = "findWaiting" /\ pc'[p] # "findWaiting" ) =>
                 /\ reservations[local[p].id].status = "CANCELLED"
                 /\ local'[p].ids = WaitingIds(waitlist, local[p].date, local[p].time)
      ]_vars

\* a cancel of a row that was not Confirmed, with nobody waiting for its
\* slot, has run its scan
C7_Witness ==
    \E p \in Requests :
        /\ local[p].op = "cancelReservation"
        /\ pc[p] = "done"
        /\ local[p].result = "not promoted"
        /\ local[p].priorStatus # "CONFIRMED"
        /\ local[p].ids = <<>>
        /\ reservations[local[p].id].status = "CANCELLED"

(***************************************************************************)
(* Every call of the two services, run one at a time from tables earlier   *)
(* calls have left, MaxCalls calls in a row.                               *)
(***************************************************************************)
MaxCalls == 3

InitOps ==
    /\ \E t \in StartTables : reservations = t[1] /\ waitlist = t[2]
    /\ settingsStore = NoSettings
    /\ now \in Instants
    /\ lastOp = NoOp
    /\ pc = <<>>
    /\ local = <<>>
    /\ calls = 0

Counted == calls < MaxCalls /\ calls' = calls + 1

Next ==
    \/ DoCreateReservation /\ Counted
    \/ DoCancelReservation /\ Counted
    \/ DoCancelByToken /\ Counted
    \/ DoTryPromoteNext /\ Counted
    \/ DoUpdateReservation /\ Counted
    \/ DoUpdateByToken /\ Counted
    \/ DoCreateEntry /\ Counted
    \/ DoUpdateEntry /\ Counted
    \/ ExpireOldEntries /\ Counted
    \/ Tick /\ UNCHANGED calls

Spec == InitOps /\ [][Next]_vars

(***************************************************************************)
(* C8, as stated: every step that takes a reservation to Cancelled runs a  *)
(* promotion attempt for its (date, time): the call invokes tryPromoteNext, *)
(* and when a Waiting entry of the slot fits the seats free after the       *)
(* cancellation, one is promoted in that step.                              *)
(***************************************************************************)
C8_EveryCancelTriggersPromotion ==
    [][ \A i \in 1..Len(reservations) :
          ( reservations[i].status # "CANCELLED"
            /\ reservations'[i].status = "CANCELLED" ) =>
              LET rows == [reservations EXCEPT ![i].status = "CANCELLED"]
                  free == maxCoversPerTimeSlot
                            - getCoversForTimeSlot(rows, reservations[i].date,
                                                   reservations[i].time)
                  fitting == { e \in 1..Len(waitlist) :
                                 /\ waitlist[e].date = reservations[i].date
                                 /\ waitlist[e].time = reservations[i].time
                                 /\ waitlist[e].status = "WAITING"
                                 /\ waitlist[e].partySize <= free }
              IN  /\ lastOp'.promoteCalled
                  /\ fitting # {} =>
                       \E e \in fitting : waitlist'[e].status = "PROMOTED" ]_vars

(***************************************************************************)
(* C9, as stated: an entry that is Promoted or Expired never becomes        *)
(* Waiting again, whichever call is made.                                   *)
(***************************************************************************)
C9_PromotedOrExpiredIsTerminal ==
    [][ \A i \in 1..Len(waitlist) :
          waitlist[i].status \in {"PROMOTED", "EXPIRED"}
              => waitlist'[i].status # "WAITING" ]_vars

(***************************************************************************)
(* C10.  A guest edit through updateByToken that supplies at least one      *)
(* field leaves the reservation Pending, whatever its status was: Confirmed,*)
(* Pending, Cancelled, Seated or NoShow.                                    *)
(***************************************************************************)
C10_GuestEditResetsToPending ==
    [][ ( /\ lastOp'.op = "updateByToken"
          /\ lastOp'.error = None
          /\ lastOp'.fields # {} ) =>
            /\ reservations'[lastOp'.id].status = "PENDING"
            /\ \A f \in lastOp'.fields :
                   reservations'[lastOp'.id][f] \in { u[f] : u \in
                       { g \in GuestUpdates : f \in DOMAIN g } } ]_vars

\* a guest edit of a reservation staff had marked NoShow
C10_Witness ==
    /\ lastOp.op = "updateByToken"
    /\ lastOp.error = None
    /\ lastOp.fields # {}
    /\ lastOp.priorStatus = "NO_SHOW"
    /\ reservations[lastOp.id].status = "PENDING"

(***************************************************************************)
(* C11.  cancelByToken tells its failures apart and changes nothing when it *)
(* fails: an unknown token gives 'Reservation not found', the token of a    *)
(* reservation already Cancelled gives 'Reservation already cancelled', and *)
(* in both cases the reservation table and the waitlist are left as they    *)
(* were (no entry is promoted, so no scan has acted); any other token       *)
(* cancels without error.                                                   *)
(***************************************************************************)
C11_CancelByTokenFailures ==
    [][ lastOp'.op = "cancelByToken" =>
          LET token == lastOp'.id
          IN  IF token \notin 1..Len(reservations)
              THEN /\ lastOp'.error = Some("Reservation not found")
                   /\ reservations' = reservations
                   /\ waitlist' = waitlist
              ELSE IF reservations[token].status = "CANCELLED"
              THEN /\ lastOp'.error = Some("Reservation already cancelled")
                   /\ reservations' = reservations
                   /\ waitlist' = waitlist
              ELSE /\ lastOp'.error = None
                   /\ reservations'[token].status = "CANCELLED" ]_vars

\* the second failure, met while a party that fits the freed seats is waiting
\* for the slot: it is still waiting
C11_Witness ==
    /\ lastOp.op = "cancelByToken"
    /\ lastOp.error = Some("Reservation already cancelled")
    /\ \E e \in 1..Len(waitlist) :
          /\ waitlist[e].status = "WAITING"
          /\ waitlist[e].date = reservations[lastOp.id].date
          /\ waitlist[e].time = reservations[lastOp.id].time
          /\ getCoversForTimeSlot(reservations, waitlist[e].date, waitlist[e].time)
                 + waitlist[e].partySize <= maxCoversPerTimeSlot

(***************************************************************************)
(* C12, as stated: a creation request whose admission decision              *)
(* (evaluateReservation on the stored settings, the reservation table and   *)
(* the clock of the call) is Reject persists neither a Reservation nor a    *)
(* WaitlistEntry.                                                           *)
(***************************************************************************)
C12_RejectPersistsNothing ==
    [][ ( /\ lastOp'.op = "createReservation"
          /\ evaluateReservation(lastOp'.request, getSettings(settingsStore)[1],
                                 reservations, now).decision = "REJECT" )
        => /\ reservations' = reservations
           /\ waitlist' = waitlist
           /\ lastOp'.status \notin {"confirmed", "pending", "waitlisted"} ]_vars

(***************************************************************************)
(* C13.  createReservation for a time outside the configured opening hours  *)
(* (before openingTime or after closingTime) appends one reservation with   *)
(* status Pending, adds nothing to the waitlist and returns 'pending'.      *)
(***************************************************************************)
C13_OutsideOpeningHoursIsPending ==
    [][ ( /\ lastOp'.op = "createReservation"
          /\ \/ TimeInMinutes(lastOp'.request.time) < TimeInMinutes(openingTime)
             \/ TimeInMinutes(lastOp'.request.time) > TimeInMinutes(closingTime) )
        => /\ lastOp'.status = "pending"
           /\ Len(reservations') = Len(reservations) + 1
           /\ reservations'[Len(reservations')].status = "PENDING"
           /\ waitlist' = waitlist ]_vars

\* a party of two asking, a day ahead, for 09:00 of a day with nothing booked
C13_Witness ==
    /\ lastOp.op = "createReservation"
    /\ lastOp.status = "pending"
    /\ reservations[lastOp.id].time = <<9, 0>>
    /\ reservations[lastOp.id].status = "PENDING"
    /\ reservations[lastOp.id].partySize = 2
    /\ reservations[lastOp.id].date * 1440 + 9 * 60 - now >= minNoticeMinutes

\* the request reaches rule 4 of shouldAutoConfirm: the party is within the
\* auto-confirm size, the time within opening hours, the notice long enough
ReachesCapacityRule(request, clock) ==
    /\ request.partySize <= maxAutoConfirmPartySize
    /\ TimeInMinutes(request.time) >= TimeInMinutes(openingTime)
    /\ TimeInMinutes(request.time) <= TimeInMinutes(closingTime)
    /\ request.date * 1440 + TimeInMinutes(request.time) - clock >= minNoticeMinutes

(***************************************************************************)
(* C14.  When the capacity check of a creation request fails (the confirmed *)
(* covers of the exact slot plus the party size exceed                      *)
(* maxCoversPerTimeSlot), createReservation appends exactly one waitlist    *)
(* entry, Waiting, with the request's date, time and party size, leaves the *)
(* reservation table as it was and returns 'waitlisted'.                    *)
(***************************************************************************)
C14_CapacityFailureWaitlists ==
    [][ ( /\ lastOp'.op = "createReservation"
          /\ ReachesCapacityRule(lastOp'.request, now)
          /\ getCoversForTimeSlot(reservations, lastOp'.request.date,
                                  lastOp'.request.time)
               + lastOp'.request.partySize > maxCoversPerTimeSlot )
        => /\ lastOp'.status = "waitlisted"
           /\ reservations' = reservations
           /\ Len(waitlist') = Len(waitlist) + 1
           /\ \A i \in 1..Len(waitlist) : waitlist'[i] = waitlist[i]
           /\ waitlist'[Len(waitlist')].status = "WAITING"
           /\ waitlist'[Len(waitlist')].date = lastOp'.request.date
           /\ waitlist'[Len(waitlist')].time = lastOp'.request.time
           /\ waitlist'[Len(waitlist')].partySize = lastOp'.request.partySize
           /\ waitlist'[Len(waitlist')].linkedReservationId = None ]_vars

\* a party of two waitlisted for a slot holding ten confirmed covers
C14_Witness ==
    /\ lastOp.op = "createReservation"
    /\ lastOp.status = "waitlisted"
    /\ waitlist[lastOp.id].status = "WAITING"
    /\ waitlist[lastOp.id].partySize = 2
    /\ getCoversForTimeSlot(reservations, waitlist[lastOp.id].date,
                            waitlist[lastOp.id].time) = 10

(***************************************************************************)
(* C15.  Too little notice is a Reject, whatever the party and the slot.   *)
(***************************************************************************)
\* the notice, in minutes, of the request recorded in lastOp: the distance
\* from the clock to the requested local date and time
NoticeMinutes == LocalDateTime(lastOp.request.date, lastOp.request.time) - now

\* C15: every evaluation of a request whose hoursInAdvance is below
\* minHoursInAdvance ends in the decision Reject, whatever the party size and
\* whatever the Confirmed reservations of the slot.
C15_ShortNoticeIsReject ==
    ( /\ lastOp.op = "evaluateReservation"
      /\ NoticeMinutes < lastOp.settings.minHoursInAdvance * 60 )
    => lastOp.result.decision = "REJECT"

\* C15 witness: a party of two, one hour ahead on an open evening whose slot
\* is already filled to capacity, rejected for the notice.
C15_Witness ==
    /\ lastOp.op = "evaluateReservation"
    /\ NoticeMinutes < lastOp.settings.minHoursInAdvance * 60
    /\ NoticeMinutes > 0
    /\ lastOp.request.partySize = 2
    /\ lastOp.result.metadata.isWithinOperatingHours
    /\ LET capacity == calculateCapacity(reservations, lastOp.request.date,
                                         lastOp.request.time, lastOp.settings)
       IN  capacity.totalGuests >= capacity.totalCapacity
    /\ lastOp.result.decision = "REJECT"
    /\ lastOp.result.reason = "Must book in advance"

(***************************************************************************)
(* C16.  The operating-hours rule and the two ends of the opening          *)
(* interval.                                                               *)
(***************************************************************************)
\* the opening interval in effect on a date, as a sequence: empty when the
\* restaurant is closed that day, else <<open, close>>; the special date's
\* custom times when it carries both, else the weekday's hours
HoursInEffect(date, settings) ==
    LET specials == {sd \in settings.specialDates : sd.date = date}
        hours == {h \in settings.operatingHours
                     : h.dayOfWeek = getUTCDay(parseDateUTC(date))}
        weekday ==
            IF hours = {} THEN <<>>
            ELSE LET h == CHOOSE x \in hours : TRUE
                 IN  IF h.isClosed THEN <<>> ELSE <<h.openTime, h.closeTime>>
    IN  IF specials = {} THEN weekday
        ELSE LET sd == CHOOSE x \in specials : TRUE
             IN  IF sd.isClosed THEN <<>>
                 ELSE IF sd.customOpenTime # NullTime /\ sd.customCloseTime # NullTime
                      THEN <<sd.customOpenTime, sd.customCloseTime>>
                      ELSE weekday

\* C16: a request is rejected as outside operating hours exactly when the
\* restaurant is closed that day or the requested time is before the open
\* time or at or after the close time (the interval [open, close)); a request
\* at exactly the close time is rejected.
C16_HalfOpenOperatingHours ==
    lastOp.op = "evaluateReservation" =>
        LET hours == HoursInEffect(lastOp.request.date, lastOp.settings)
            time == lastOp.request.time
            outside == \/ hours = <<>>
                       \/ /\ hours # <<>>
                          /\ \/ StrLT(time, hours[1])
                             \/ StrLE(hours[2], time)
        IN  outside <=> /\ lastOp.result.decision = "REJECT"
                        /\ lastOp.result.reason = "Outside operating hours"

(***************************************************************************)
(* C17.  A special date overrides the weekday's operating hours.           *)
(***************************************************************************)
\* the SpecialDate entries for the date of the request recorded in lastOp
SpecialsOfRequest ==
    {sd \in lastOp.settings.specialDates : sd.date = lastOp.request.date}

\* the OperatingHours entries for the weekday of that date
WeekdayOfRequest ==
    {h \in lastOp.settings.operatingHours
        : h.dayOfWeek = getUTCDay(parseDateUTC(lastOp.request.date))}

RejectedAsClosed ==
    /\ lastOp.result.decision = "REJECT"
    /\ lastOp.result.reason = "Outside operating hours"

\* C17: when the settings hold a SpecialDate for the requested date, it
\* decides the operating-hours rule: marked closed, the request is rejected
\* whatever the weekday's hours say; carrying custom open and close times,
\* the request is rejected as outside hours exactly when its time is outside
\* those custom times, whatever the weekday entry says, closed or missing
\* included.
C17_SpecialDateOverridesWeekday ==
    ( /\ lastOp.op = "evaluateReservation"
      /\ SpecialsOfRequest # {} )
    => \A sd \in SpecialsOfRequest :
          /\ sd.isClosed => RejectedAsClosed
          /\ ( /\ ~sd.isClosed
               /\ sd.customOpenTime # NullTime
               /\ sd.customCloseTime # NullTime )
             => ( RejectedAsClosed
                    <=> ~( /\ StrLE(sd.customOpenTime, lastOp.request.time)
                           /\ StrLE(lastOp.request.time, sd.customCloseTime) ) )

\* C17 witness: a special date with custom times on a day whose weekday entry
\* is missing, and a request inside the custom times that passes the
\* operating-hours rule.
C17_Witness ==
    /\ lastOp.op = "evaluateReservation"
    /\ WeekdayOfRequest = {}
    /\ \E sd \in SpecialsOfRequest :
          /\ ~sd.isClosed
          /\ StrLE(sd.customOpenTime, lastOp.request.time)
          /\ StrLE(lastOp.request.time, sd.customCloseTime)
    /\ lastOp.result.metadata.isWithinOperatingHours
    /\ lastOp.result.decision = "AUTO_CONFIRM"

(***************************************************************************)
(* C18.  The manual-review party-size rules.                               *)
(***************************************************************************)
\* the request recorded in lastOp got past rules 1-3: operating hours, the
\* advance-notice window and the same-day policy
PassedRules1to3 ==
    /\ lastOp.result.metadata.isWithinOperatingHours
    /\ NoticeMinutes >= lastOp.settings.minHoursInAdvance * 60
    /\ NoticeMinutes <= lastOp.settings.maxDaysInAdvance * 24 * 60
    /\ (NoticeMinutes >= 24 * 60 \/ lastOp.settings.allowSameDayBooking)

PendingFor(reason) ==
    /\ lastOp.result.decision = "PENDING"
    /\ lastOp.result.reason = reason

\* C18: for a request that passed rules 1-3 the party-size rules are tried in
\* the order large party (needs approval and size >= largePartyMinSize),
\* deposit (size >= requireDepositMinPartySize), auto-accept limit (size >
\* autoAcceptMaxPartySize); the first that holds makes the request Pending
\* with that rule's reason, whatever the reservations of the slot.
C18_PartySizeRulesInOrder ==
    ( /\ lastOp.op = "evaluateReservation"
      /\ PassedRules1to3 )
    => LET size == lastOp.request.partySize
           settings == lastOp.settings
       IN  IF settings.largePartyNeedsApproval /\ size >= settings.largePartyMinSize
           THEN PendingFor("requires manager approval")
           ELSE IF size >= settings.requireDepositMinPartySize
           THEN PendingFor("requires deposit confirmation")
           ELSE IF size > settings.autoAcceptMaxPartySize
           THEN PendingFor("exceeds auto-accept limit")
           ELSE lastOp.result.reason \notin { "requires manager approval",
                                              "requires deposit confirmation",
                                              "exceeds auto-accept limit" }

\* C18 witness: a party of ten, where both the large-party and the deposit
\* rule hold, asking for a slot that is full by count and by seats: Pending
\* for manager approval.
C18_Witness ==
    /\ lastOp.op = "evaluateReservation"
    /\ PassedRules1to3
    /\ lastOp.settings.largePartyNeedsApproval
    /\ lastOp.request.partySize >= lastOp.settings.largePartyMinSize
    /\ lastOp.request.partySize >= lastOp.settings.requireDepositMinPartySize
    /\ LET capacity == calculateCapacity(reservations, lastOp.request.date,
                                         lastOp.request.time, lastOp.settings)
       IN  /\ capacity.reservationCount >= lastOp.settings.maxReservationsPerSlot
           /\ capacity.totalGuests >= capacity.totalCapacity
    /\ PendingFor("requires manager approval")

(***************************************************************************)
(* C19.  The per-slot limit on the number of reservations.                 *)
(***************************************************************************)
\* the request recorded in lastOp reached the capacity checks: it passed
\* rules 1-3 and none of the party-size rules holds
ReachedCapacityChecks ==
    /\ PassedRules1to3
    /\ ~( /\ lastOp.settings.largePartyNeedsApproval
          /\ lastOp.request.partySize >= lastOp.settings.largePartyMinSize )
    /\ lastOp.request.partySize < lastOp.settings.requireDepositMinPartySize
    /\ lastOp.request.partySize <= lastOp.settings.autoAcceptMaxPartySize

\* the Confirmed reservations of the requested date no further than
\* turnoverMinutes from the requested time
ConfirmedInWindow ==
    { i \in 1..Len(reservations) :
        /\ reservations[i].status = "CONFIRMED"
        /\ reservations[i].date = lastOp.request.date
        /\ Abs(TimeInMinutes(reservations[i].time)
                 - TimeInMinutes(lastOp.request.time))
              <= lastOp.settings.turnoverMinutes }

\* C19: a request that reaches the capacity checks while the number of
\* Confirmed reservations within the turnover window is at least
\* maxReservationsPerSlot is Waitlist with the reason "time slot is full",
\* whatever the utilization.
C19_SlotLimitIsWaitlist ==
    ( /\ lastOp.op = "evaluateReservation"
      /\ ReachedCapacityChecks
      /\ Cardinality(ConfirmedInWindow) >= lastOp.settings.maxReservationsPerSlot )
    => /\ lastOp.result.decision = "WAITLIST"
       /\ lastOp.result.reason = "Time slot is full"

\* C19 witness: maxReservationsPerSlot 1, turnoverMinutes 60, one Confirmed
\* party of four at 19:00, and a request for two at 19:30 of that day:
\* Waitlist, with the room at 40 percent.
C19_Witness ==
    /\ lastOp.op = "evaluateReservation"
    /\ ReachedCapacityChecks
    /\ lastOp.settings.maxReservationsPerSlot = 1
    /\ lastOp.settings.turnoverMinutes = 60
    /\ Len(reservations) = 1
    /\ reservations[1].status = "CONFIRMED"
    /\ reservations[1].time = <<19, 0>>
    /\ reservations[1].partySize = 4
    /\ reservations[1].date = lastOp.request.date
    /\ lastOp.request.time = <<19, 30>>
    /\ lastOp.request.partySize = 2
    /\ lastOp.result.decision = "WAITLIST"
    /\ lastOp.result.reason = "Time slot is full"

(***************************************************************************)
(* C20.  The utilization thresholds and the over-capacity check.           *)
(***************************************************************************)
\* the guests of the Confirmed reservations in the window, before the new
\* party is added
GuestsInWindow == SumPartySize(SelectSeq(reservations,
    LAMBDA r : /\ r.status = "CONFIRMED"
               /\ r.date = lastOp.request.date
               /\ Abs(TimeInMinutes(r.time) - TimeInMinutes(lastOp.request.time))
                     <= lastOp.settings.turnoverMinutes))

\* C20: for a request that reaches the capacity checks with the slot below
\* its reservation limit, the thresholds are compared with the current
\* utilization, existing guests over total capacity, the new party not
\* counted: at or above autoWaitlistThreshold the decision is Waitlist, else
\* at or above autoPendingThreshold it is Pending; only then the sum of the
\* existing guests and the new party is compared with the total capacity,
\* Waitlist when it is larger and auto-confirm otherwise.
C20_ThresholdsUseCurrentUtilization ==
    ( /\ lastOp.op = "evaluateReservation"
      /\ ReachedCapacityChecks
      /\ Cardinality(ConfirmedInWindow) < lastOp.settings.maxReservationsPerSlot
      /\ TotalCapacity(lastOp.settings) > 0 )
    => LET guests == GuestsInWindow
           seats == TotalCapacity(lastOp.settings)
           settings == lastOp.settings
           result == lastOp.result
       IN  IF guests * 100 >= settings.autoWaitlistThreshold * seats
           THEN result.decision = "WAITLIST" /\ result.reason = "adding to waitlist"
           ELSE IF guests * 100 >= settings.autoPendingThreshold * seats
           THEN result.decision = "PENDING" /\ result.reason = "requires review"
           ELSE IF guests + lastOp.request.partySize > seats
           THEN result.decision = "WAITLIST" /\ result.reason = "Would exceed capacity"
           ELSE result.decision = "AUTO_CONFIRM"

\* C20 witness: thresholds 85 and 95 percent, 100 seats, 90 guests seated in
\* the window and a party of five, which would bring the room to 95
\* percent: Pending.
C20_Witness ==
    /\ lastOp.op = "evaluateReservation"
    /\ ReachedCapacityChecks
    /\ lastOp.settings.autoPendingThreshold = 85
    /\ lastOp.settings.autoWaitlistThreshold = 95
    /\ TotalCapacity(lastOp.settings) = 100
    /\ GuestsInWindow = 90
    /\ lastOp.request.partySize = 5
    /\ lastOp.result.decision = "PENDING"
    /\ lastOp.result.reason = "requires review"

(***************************************************************************)
(* C21.  When the request is auto-confirmed.                               *)
(***************************************************************************)
\* the seats of all areas in the settings the evaluation read
SeatsOfRequest ==
    lastOp.settings.diningRoomSeats + lastOp.settings.barSeats
        + lastOp.settings.outdoorSeats

\* no rule before the utilization thresholds fires for the request recorded in
\* lastOp: operating hours, advance window, same-day, party size, slot count
NoEarlierRuleFires ==
    /\ ReachedCapacityChecks
    /\ Cardinality(ConfirmedInWindow) < lastOp.settings.maxReservationsPerSlot

\* the utilization with the new party added is not above autoWaitlistThreshold
FitsUnderWaitlistThreshold ==
    (GuestsInWindow + lastOp.request.partySize) * 100
        <= lastOp.settings.autoWaitlistThreshold * SeatsOfRequest

\* C21 as stated: every request whose utilization after adding the party is
\* not above autoWaitlistThreshold and for which no earlier rule fires is
\* auto-confirmed.
C21_UnderWaitlistThresholdIsAutoConfirm ==
    ( /\ lastOp.op = "evaluateReservation"
      /\ NoEarlierRuleFires
      /\ FitsUnderWaitlistThreshold )
    => lastOp.result.decision = "AUTO_CONFIRM"

\* C21 amended: such a request is auto-confirmed when, in addition, the
\* utilization before adding the party is below autoPendingThreshold; at or
\* above it the request is Pending.
C21_UnderBothThresholdsIsAutoConfirm ==
    ( /\ lastOp.op = "evaluateReservation"
      /\ NoEarlierRuleFires
      /\ FitsUnderWaitlistThreshold )
    => IF GuestsInWindow * 100 < lastOp.settings.autoPendingThreshold * SeatsOfRequest
       THEN lastOp.result.decision = "AUTO_CONFIRM"
       ELSE lastOp.result.decision = "PENDING"

\* C21 witness: four guests seated of ten seats and a party of five: the room
\* goes to 90 percent, under the waitlist threshold, and the request is
\* auto-confirmed.
C21_Witness ==
    /\ lastOp.op = "evaluateReservation"
    /\ NoEarlierRuleFires
    /\ FitsUnderWaitlistThreshold
    /\ GuestsInWindow = 4
    /\ SeatsOfRequest = 10
    /\ lastOp.request.partySize = 5
    /\ lastOp.result.decision = "AUTO_CONFIRM"

(***************************************************************************)
(* C22.  What calculateCapacity counts.                                    *)
(***************************************************************************)
RECURSIVE GuestsOf(_)
\* the party sizes of the reservations with the given ids, added up
GuestsOf(ids) ==
    IF ids = {} THEN 0
    ELSE LET i == CHOOSE x \in ids : TRUE
         IN  reservations[i].partySize + GuestsOf(ids \ {i})

\* calculateCapacity for the request recorded in lastOp
CapacityOfRequest ==
    calculateCapacity(reservations, lastOp.request.date, lastOp.request.time,
                      lastOp.settings)

\* C22: calculateCapacity counts exactly the reservations that are Confirmed,
\* on the requested date, and at most turnoverMinutes (inclusive) away from
\* the requested time: reservationCount is their number, totalGuests the sum
\* of their party sizes, and the utilization is totalGuests over the seats of
\* the three areas; a reservation in any other status never contributes.  The
\* evaluation reports these figures whenever it gets as far as computing them.
C22_CapacityCountsConfirmedInWindow ==
    lastOp.op = "evaluateReservation" =>
        /\ CapacityOfRequest.reservationCount = Cardinality(ConfirmedInWindow)
        /\ CapacityOfRequest.totalGuests = GuestsOf(ConfirmedInWindow)
        /\ CapacityOfRequest.totalCapacity = SeatsOfRequest
        /\ PassedRules1to3 =>
             /\ lastOp.result.metadata.reservationsInSlot
                    = Cardinality(ConfirmedInWindow)
             /\ lastOp.result.metadata.totalGuests = GuestsOf(ConfirmedInWindow)

\* C22 witness: a table with a Pending, a Cancelled, a Seated and a NoShow
\* reservation inside the window, a Confirmed one on another date, and one
\* Confirmed party of three exactly turnoverMinutes from the requested time:
\* one reservation, three guests.
C22_Witness ==
    /\ lastOp.op = "evaluateReservation"
    /\ PassedRules1to3
    /\ \A st \in {"PENDING", "CANCELLED", "SEATED", "NO_SHOW"} :
          \E i \in 1..Len(reservations) :
             /\ reservations[i].status = st
             /\ reservations[i].date = lastOp.request.date
             /\ Abs(TimeInMinutes(reservations[i].time)
                      - TimeInMinutes(lastOp.request.time))
                   < lastOp.settings.turnoverMinutes
    /\ \E i \in 1..Len(reservations) :
          /\ reservations[i].status = "CONFIRMED"
          /\ reservations[i].date # lastOp.request.date
    /\ \E i \in ConfirmedInWindow :
          Abs(TimeInMinutes(reservations[i].time)
                - TimeInMinutes(lastOp.request.time))
             = lastOp.settings.turnoverMinutes
    /\ lastOp.result.metadata.reservationsInSlot = 1
    /\ lastOp.result.metadata.totalGuests = 3

(***************************************************************************)
(* C23.  What an evaluation writes.                                        *)
(***************************************************************************)
\* C23: evaluateReservation performs no writes: whatever the request and the
\* state it starts from, a state without a settings record included, the
\* stored reservations, waitlist entries and settings are the same after the
\* call as before it.
C23_EvaluationWritesNothing ==
    [][ lastOp'.op = "evaluateReservation" =>
          /\ reservations' = reservations
          /\ waitlist' = waitlist
          /\ settingsStore' = settingsStore ]_vars

(***************************************************************************)
(* C24.  tryPromoteNext with nothing to promote.                           *)
(***************************************************************************)
\* the Waiting entries of a slot
WaitingIn(date, time) ==
    { i \in 1..Len(waitlist) :
        /\ waitlist[i].date = date /\ waitlist[i].time = time
        /\ waitlist[i].status = "WAITING" }

\* no Waiting entry of the slot fits beside the slot's Confirmed covers (so
\* also when the slot has no Waiting entry)
NothingFits(date, time) ==
    \A i \in WaitingIn(date, time) :
        getCoversForTimeSlot(reservations, date, time) + waitlist[i].partySize
            > maxCoversPerTimeSlot

\* C24: a call of tryPromoteNext for a slot with no Waiting entry, or none
\* that fits the remaining capacity, returns promoted false and changes no
\* reservation and no waitlist entry; the same call made again on the state
\* it left returns the same and leaves the same tables.
C24_NothingToPromoteIsNoOp ==
    [][ ( /\ lastOp'.op = "tryPromoteNext"
          /\ NothingFits(lastOp'.date, lastOp'.time) )
        => /\ ~lastOp'.promoted
           /\ lastOp'.entryId = None
           /\ reservations' = reservations
           /\ waitlist' = waitlist
           /\ LET again == tryPromoteNext(reservations', waitlist',
                                          lastOp'.date, lastOp'.time, now')
              IN  /\ ~again.promoted
                  /\ again.reservations = reservations'
                  /\ again.waitlist = waitlist' ]_vars

\* C24 witness: tryPromoteNext returned promoted false for a slot where a
\* party is Waiting and does not fit.
C24_Witness ==
    /\ lastOp.op = "tryPromoteNext"
    /\ ~lastOp.promoted
    /\ WaitingIn(lastOp.date, lastOp.time) # {}
    /\ NothingFits(lastOp.date, lastOp.time)

(***************************************************************************)
(* C25.  One promotion per call.                                           *)
(***************************************************************************)
\* the entries a step turned into Promoted
NewlyPromoted ==
    { i \in 1..Len(waitlist) :
        waitlist[i].status # "PROMOTED" /\ waitlist'[i].status = "PROMOTED" }

\* C25: one call of tryPromoteNext, on its own or inside a cancellation,
\* promotes at most one waitlist entry and creates at most one reservation:
\* when it promotes, exactly one entry becomes Promoted, exactly one
\* reservation is added, and every other entry, the other fitting ones
\* included, is left as it was.
C25_AtMostOnePromotionPerCall ==
    [][ IsScan(lastOp') =>
          /\ Len(waitlist') = Len(waitlist)
          /\ Cardinality(NewlyPromoted) <= 1
          /\ Len(reservations') - Len(reservations) = Cardinality(NewlyPromoted)
          /\ lastOp'.promoted <=> Cardinality(NewlyPromoted) = 1
          /\ \A i \in 1..Len(waitlist) :
                i \notin NewlyPromoted => waitlist'[i] = waitlist[i] ]_vars

\* C25 witness: a cancellation freed room for two waiting parties of the
\* slot; the first was promoted and the second is still Waiting although it
\* fits beside the promoted one.
C25_Witness ==
    /\ lastOp.op \in {"cancelReservation", "cancelByToken"}
    /\ lastOp.error = None
    /\ lastOp.promoted
    /\ \E i \in WaitingIn(lastOp.date, lastOp.time) :
          /\ lastOp.entryId[1] < i
          /\ getCoversForTimeSlot(reservations, lastOp.date, lastOp.time)
                + waitlist[i].partySize <= maxCoversPerTimeSlot

(***************************************************************************)
(* The calls that send email, with a mail server that may fail: at most    *)
(* MaxCalls calls of createReservation, cancelReservation, cancelByToken,  *)
(* tryPromoteNext and updateByToken (which sends none), from the tables    *)
(* earlier calls left.                                                     *)
(***************************************************************************)
MailCreateReservation ==
    \E slot \in Slots, g \in Guests, smtp \in Smtp :
        CreateReservation(g.guestName, slot[1], slot[2], g.partySize, smtp)
MailCancelReservation == \E id \in Ids, smtp \in Smtp : CancelReservation(id, smtp)
MailCancelByToken == \E id \in Ids, smtp \in Smtp : CancelByToken(id, smtp)
MailTryPromoteNext ==
    \E slot \in Slots, smtp \in Smtp : TryPromoteNext(slot[1], slot[2], smtp)

NextNotify ==
    \/ MailCreateReservation /\ Counted
    \/ MailCancelReservation /\ Counted
    \/ MailCancelByToken /\ Counted
    \/ MailTryPromoteNext /\ Counted
    \/ DoUpdateByToken /\ Counted

SpecNotify == InitOps /\ [][NextNotify]_vars

(***************************************************************************)
(* C26.  A failed notification changes neither the result nor the tables.  *)
(***************************************************************************)
\* the call recorded in op sent an email and the mail server failed
MailFailed(op) == "smtp" \in DOMAIN op /\ op.smtp = "failed"

ExpiryTables ==
    { <<>>,
      <<Entry("ann", Monday - 1, <<19, 0>>, 8)>>,
      <<Entry("ann", Monday - 1, <<19, 0>>, 8), Entry("bob", Monday, <<19, 0>>, 2)>>,
      <<Entry("bob", Monday, <<19, 0>>, 2), Entry("ann", Monday - 1, <<19, 0>>, 8)>>,
      <<Entry("ann", Monday - 1, <<19, 0>>, 8), Entry("bob", Monday + 1, <<19, 0>>, 2)>> }

InitExpiry ==
    /\ reservations \in {<<>>, <<R8, R2>>}
    /\ waitlist \in ExpiryTables
    /\ settingsStore = NoSettings
    /\ now \in Instants
    /\ lastOp = NoOp
    /\ pc = <<>>
    /\ local = <<>>
    /\ calls = 0

NextExpiry ==
    \/ ExpireOldEntries /\ Counted
    \/ DoCreateEntry /\ Counted
    \/ DoUpdateEntry /\ Counted
    \/ Tick /\ UNCHANGED calls

SpecExpiry == InitExpiry /\ [][NextExpiry]_vars

(***************************************************************************)
(* C27.  What expireOldEntries expires.                                    *)
(***************************************************************************)
\* the entry's date is strictly in the past: its whole day lies before now
DatedInThePast(entry) == (entry.date + 1) * 1440 <= now

\* C27: expireOldEntries marks as Expired exactly the Waiting entries whose
\* date is strictly in the past and returns their count; entries dated today
\* or later stay Waiting, entries already Promoted or Expired are unchanged,
\* and no reservation is touched.
C27_ExpiresExactlyPastWaiting ==
    [][ lastOp'.op = "expireOldEntries" =>
          LET old == { i \in 1..Len(waitlist) :
                         /\ waitlist[i].status = "WAITING"
                         /\ DatedInThePast(waitlist[i]) }
          IN  /\ Len(waitlist') = Len(waitlist)
              /\ \A i \in 1..Len(waitlist) :
                    waitlist'[i] = IF i \in old
                                   THEN [waitlist[i] EXCEPT !.status = "EXPIRED"]
                                   ELSE waitlist[i]
              /\ lastOp'.count = Cardinality(old)
              /\ reservations' = reservations ]_vars

\* C27 witness: one entry expired by the call, dated yesterday, and an entry
\* dated today still Waiting, with reservations in the table.
C27_Witness ==
    /\ lastOp.op = "expireOldEntries"
    /\ lastOp.count = 1
    /\ reservations # <<>>
    /\ \E i, j \in 1..Len(waitlist) :
          /\ waitlist[i].status = "EXPIRED"
          /\ DatedInThePast(waitlist[i])
          /\ waitlist[j].status = "WAITING"
          /\ waitlist[j].date * 1440 <= now
          /\ ~DatedInThePast(waitlist[j])

(***************************************************************************)
(* lib/serialize.ts, and the round trip of a reservation's date: POST      *)
(* /api/reservations stores the row with its creation instant, GET         *)
(* /api/reservations/:id serializes it.  A calendar date string is kept as *)
(* its day number.                                                         *)
(***************************************************************************)
\* formatDateLocal: the calendar date the UTC getters read off an instant
formatDateLocal(instant) == instant \div 1440

\* one of the two blocks of serializeReservation: the date formatted so far,
\* or the UTC date of createdAt when that is exactly one day later
CreatedAtFallback(formatted, createdAt) ==
    LET createdDateStr == formatDateLocal(createdAt)
        dayDiff == createdDateStr - formatted
    IN  IF dayDiff = 1 THEN createdDateStr ELSE formatted

\* serializeReservation: the row with its date as a string; the first block
\* formats the Date, the second runs the same fallback on the string
serializeReservation(row) ==
    LET formatted == formatDateLocal(parseDateUTC(row.date))
        first == CreatedAtFallback(formatted, row.createdAt)
    IN  [row EXCEPT !.date = CreatedAtFallback(first, row.createdAt)]

\* the instants at which reservations are created and fetched: Monday 10:00
\* and 18:30 UTC, Tuesday 01:00 UTC (Monday evening west of Greenwich) and
\* Wednesday 01:00 UTC
RoundTripInstants ==
    Instants \cup {(Monday + 1) * 1440 + 60, (Monday + 2) * 1440 + 60}

InitRoundTrip ==
    /\ reservations = <<>>
    /\ waitlist = <<>>
    /\ settingsStore = NoSettings
    /\ now \in RoundTripInstants
    /\ lastOp = NoOp
    /\ pc = <<>>
    /\ local = <<>>
    /\ calls = 0

\* ReservationController.createReservation for a request that is not
\* waitlisted: the date string parsed by parseDateUTC, the row created with
\* createdAt defaulting to the current instant
PostReservation(guestName, date, time, partySize) ==
    LET dateObj == parseDateUTC(date)
        decision == shouldAutoConfirm(reservations, date, time, partySize, now)
        row == Row(guestName, formatDateLocal(dateObj), time, partySize,
                   IF decision.shouldConfirm THEN "CONFIRMED" ELSE "PENDING",
                   "WEB", Null)
    IN  /\ ~decision.shouldWaitlist
        /\ Len(reservations) < MaxReservations
        /\ reservations' = Append(reservations,
               [ f \in DOMAIN row \cup {"createdAt"} |->
                   IF f = "createdAt" THEN now ELSE row[f] ])
        /\ lastOp' = [ op |-> "createReservation", id |-> Len(reservations) + 1,
                       sent |-> date ]
        /\ UNCHANGED <<waitlist, settingsStore, now, pc, local>>

\* ReservationController.getReservationById
GetReservationById(id) ==
    /\ id \in 1..Len(reservations)
    /\ lastOp' = [ op |-> "getReservationById", id |-> id,
                   reservation |-> serializeReservation(reservations[id]) ]
    /\ UNCHANGED <<reservations, waitlist, settingsStore, now, pc, local>>

\* time passes between the calls
Later ==
    /\ \E t \in RoundTripInstants : t > now /\ now' = t
    /\ lastOp' = [op |-> "tick"]
    /\ UNCHANGED <<reservations, waitlist, settingsStore, pc, local>>

NextRoundTrip ==
    \/ (\E slot \in Slots, g \in Guests :
          PostReservation(g.guestName, slot[1], slot[2], g.partySize)) /\ Counted
    \/ (\E id \in Ids : GetReservationById(id)) /\ Counted
    \/ Later /\ UNCHANGED calls

SpecRoundTrip == InitRoundTrip /\ [][NextRoundTrip]_vars

(***************************************************************************)
(* C28.  The date round trip.                                              *)
(***************************************************************************)
\* C28: a reservation created with the calendar date D and later fetched and
\* serialized reports exactly D, whatever the instant it was created at: the
\* reported date is never shifted by a day.
C28_DateRoundTrip ==
    lastOp.op = "getReservationById" =>
        lastOp.reservation.date = reservations[lastOp.id].date

(***************************************************************************)
(* C29.  A new booking and a promotion racing for freed capacity.          *)
(***************************************************************************)
\* the Confirmed covers of a slot, counted row by row
CoversNow(date, time) ==
    GuestsOf({ i \in 1..Len(reservations) :
                 /\ reservations[i].date = date
                 /\ reservations[i].time = time
                 /\ reservations[i].status = "CONFIRMED" })

\* C29: a creation and the promotion scan of a cancellation each decide on
\* the Confirmed covers of the slot as they are at their own covers query,
\* the cancelled row no longer among them, and write in a later step with
\* nothing held in between: the creation is to be confirmed, and the scan
\* picks an entry, exactly when the party fits beside the covers read.  So an
\* interleaving in which both read the covers after the cancellation and both
\* confirm a party into the same freed capacity, leaving the slot above the
\* limit, is reachable (C29_Witness).
C29_EachDecidesOnItsOwnRead ==
    [][ \A p \in Requests :
          ( pc[p] = "getCovers" /\ pc'[p] # "getCovers" ) =>
              LET l == local'[p]
                  covers == CoversNow(local[p].date, local[p].time)
              IN  /\ l.coversRead = Some(covers)
                  /\ reservations' = reservations
                  /\ IF l.op = "createReservation"
                     THEN l.decision[1].shouldConfirm
                              <=> covers + l.partySize <= maxCoversPerTimeSlot
                     ELSE /\ reservations[l.id].status = "CANCELLED"
                          /\ l.hit # None =>
                               covers + l.entries[l.hit[1]].partySize
                                   <= maxCoversPerTimeSlot
                          /\ l.hit = None =>
                               \A k \in 1..Len(l.ids) :
                                   covers + l.entries[l.ids[k]].partySize
                                       > maxCoversPerTimeSlot ]_vars

\* C29 witness: a cancellation freed 8 covers of a full slot; its promotion
\* scan and a new booking for the slot both read the covers left after the
\* cancellation, each found its party to fit, both wrote a Confirmed
\* reservation, and the slot is above the limit.
C29_Witness ==
    \E p, q \in Requests :
        /\ local[p].op = "createReservation" /\ pc[p] = "done"
        /\ local[p].result = "confirmed"
        /\ local[q].op = "cancelReservation" /\ pc[q] = "done"
        /\ local[q].result = "promoted"
        /\ local[q].priorStatus = "CONFIRMED"
        /\ local[p].date = local[q].date /\ local[p].time = local[q].time
        /\ local[p].coversRead # None
        /\ local[p].coversRead = local[q].coversRead
        /\ CoversNow(local[p].date, local[p].time)
              = local[p].coversRead[1] + local[p].partySize
                  + local[q].entries[local[q].hit[1]].partySize
        /\ CoversNow(local[p].date, local[p].time) > maxCoversPerTimeSlot

(***************************************************************************)
(* C30.  One waitlist entry, two concurrent promotion scans.               *)
(***************************************************************************)
\* the requests that have created a reservation from the entry
PromotersOf(entry) ==
    { p \in Requests : /\ local[p].op = "cancelReservation"
                       /\ "reservationId" \in DOMAIN local[p]
                       /\ local[p].hit = Some(entry)
                       /\ local[p].reservationId # None }

\* C30: a waitlist entry is promoted at most once: in every reachable state,
\* interleavings of two cancellations included, at most one reservation has
\* been created from any one entry, and linkedReservationId is written only
\* to an entry that is still Waiting (so at most once).
C30_PromotedAtMostOnce ==
    /\ \A e \in 1..Len(waitlist) : Cardinality(PromotersOf(e)) <= 1
    /\ \A p \in Requests :
           ( pc[p] = "updateEntry" /\ local[p].hit # None
               /\ waitlist[local[p].hit[1]].status = "PROMOTED" ) =>
                 waitlist[local[p].hit[1]].linkedReservationId
                     = local[p].reservationId

====
